---- MODULE Spec2Model ----
(***************************************************************************)
(* Model of NoorDigitalAgency/release-startup.                             *)
(*                                                                         *)
(* Strings of the program are sequences of one-character strings, so that  *)
(* split, join, regular-expression matching and number formatting are      *)
(* computed the way the code computes them.                                *)
(***************************************************************************)
EXTENDS Integers, Sequences, FiniteSets, TLC

VARIABLES
  vin,      \* versioning: the arguments of the call
  vout,     \* versioning: the outcome of the latest call
  vfirst,   \* versioning: the outcome of the call before the latest one
  calls,    \* versioning: number of calls made so far
  va, vb, vc,  \* version strings handed to compareVersions / buildExtendedVersion
  cmp,      \* results of compareVersions on va, vb, vc
  ext,      \* results of buildExtendedVersion on va
  git,      \* the local repository as the git commands report it
  repo,     \* the commit graph behind it (when the behaviour draws one)
  prs,      \* the open pull requests the host lists, by base branch
  cin,      \* chooseBestBase: the arguments of the call
  cout,     \* chooseBestBase: the branch returned
  hin,      \* assertCorrectHotfixBranch: the arguments of the call
  hres,     \* assertCorrectHotfixBranch: the outcome
  pin,      \* assertOpenPRs: the arguments of the call
  pres,     \* assertOpenPRs: the outcome
  host,     \* the artifacts the host lists, and whether a checkout exists
  fin,      \* ensureFreshWorkflowRun: the arguments of the calls
  fres,     \* ensureFreshWorkflowRun: the outcome of the last call
  fprev,    \* ensureFreshWorkflowRun: the outcome of the call before it
  fcalls,   \* ensureFreshWorkflowRun: the number of calls made
  inp,      \* the run: the event and the inputs of the action
  pc,       \* the run or the call: the statement it is at
  rs,       \* the run or the call: its local variables
  world,    \* the run: the repository on the host
  outs,     \* the run: outputs, saved state, exports, failure
  io        \* the API calls and git commands made so far, and those in flight

versionVars == <<vin, vout, vfirst, calls>>
orderVars == <<va, vb, vc, cmp, ext>>
gitVars == <<git, repo, prs>>
forkVars == <<cin, cout, hin, hres, pin, pres>>
freshVars == <<host, fin, fres, fprev, fcalls>>
runVars == <<inp, pc, rs, world, outs, io>>

\* the variables a behaviour about one part of the program leaves alone
exceptVersion == <<orderVars, gitVars, forkVars, freshVars, runVars>>
exceptOrder == <<versionVars, gitVars, forkVars, freshVars, runVars>>
exceptFork == <<versionVars, orderVars, gitVars, freshVars, runVars>>
exceptFresh == <<versionVars, orderVars, forkVars, runVars>>
exceptRun == <<versionVars, orderVars, gitVars, forkVars, freshVars>>

-----------------------------------------------------------------------------
(* Bounds of the model.                                                    *)

MaxRev == 2
MaxPatch == 1
MaxIter == 2
MaxFix == 2
MaxCalls == 3
MaxDist == 2
NumCommits == 3
MaxRuns == 3
MaxPolls == 2
MaxOwn == 1

-----------------------------------------------------------------------------
(* JavaScript strings as sequences of characters.                          *)

DigitChars == <<"0", "1", "2", "3", "4", "5", "6", "7", "8", "9">>

IsDigit(c) == \E d \in 1..10 : DigitChars[d] = c

DigitVal(c) == (CHOOSE d \in 1..10 : DigitChars[d] = c) - 1

\* the value `undefined`, and the number NaN
Undefined == <<"undefined!">>
\* `undefined` where an array of strings is expected
UndefinedArray == <<Undefined>>
NaN == -1

S_v == <<"v">>
S_dot == <<".">>
S_alpha == <<"a", "l", "p", "h", "a">>
S_beta == <<"b", "e", "t", "a">>
S_dashAlpha == <<"-">> \o S_alpha
S_dashBeta == <<"-">> \o S_beta
S_NaN == <<"N", "a", "N">>
S_develop == <<"d", "e", "v", "e", "l", "o", "p">>

AllDigits(s) == \A i \in 1..Len(s) : IsDigit(s[i])

\* `${n}` for a number n
RECURSIVE NumToStr(_)
NumToStr(n) ==
  IF n = NaN THEN S_NaN
  ELSE IF n < 10 THEN <<DigitChars[n + 1]>>
  ELSE NumToStr(n \div 10) \o <<DigitChars[(n % 10) + 1]>>

\* value of a string of decimal digits
RECURSIVE DigitsToNum(_)
DigitsToNum(s) ==
  IF s = <<>> THEN 0
  ELSE 10 * DigitsToNum(SubSeq(s, 1, Len(s) - 1)) + DigitVal(s[Len(s)])

\* the unary + of JavaScript (and Number(s)) on the strings that occur here:
\* the empty string is 0, a string of digits is its value, anything else NaN
ToNumber(s) ==
  IF s = <<>> THEN 0
  ELSE IF AllDigits(s) THEN DigitsToNum(s)
  ELSE NaN

\* n + 1 in JavaScript arithmetic
PlusOne(n) == IF n = NaN THEN NaN ELSE n + 1

StartsWithAt(s, i, lit) ==
  /\ i + Len(lit) - 1 <= Len(s)
  /\ SubSeq(s, i, i + Len(lit) - 1) = lit

\* index of the first occurrence of sep in s, 0 if none
IndexOf(s, sep) ==
  IF \E i \in 1..Len(s) : StartsWithAt(s, i, sep)
  THEN CHOOSE i \in 1..Len(s) :
         /\ StartsWithAt(s, i, sep)
         /\ \A j \in 1..(i - 1) : ~StartsWithAt(s, j, sep)
  ELSE 0

Includes(s, sub) == IndexOf(s, sub) # 0

\* s.split(sep) for a non-empty separator
RECURSIVE Split(_, _)
Split(s, sep) ==
  LET i == IndexOf(s, sep) IN
  IF i = 0 THEN <<s>>
  ELSE <<SubSeq(s, 1, i - 1)>> \o Split(SubSeq(s, i + Len(sep), Len(s)), sep)

\* parts.join(sep)
RECURSIVE Join(_, _)
Join(parts, sep) ==
  IF parts = <<>> THEN <<>>
  ELSE IF Len(parts) = 1 THEN parts[1]
  ELSE parts[1] \o sep \o Join(Tail(parts), sep)

Reverse(q) == [i \in 1..Len(q) |-> q[Len(q) + 1 - i]]

\* array.pop(): the popped element (undefined on an empty array) ...
PopValue(q) == IF q = <<>> THEN Undefined ELSE q[Len(q)]
\* ... and the array it leaves
PopRest(q) == IF q = <<>> THEN <<>> ELSE SubSeq(q, 1, Len(q) - 1)

\* x ?? d
OrElse(x, d) == IF x = Undefined THEN d ELSE x

\* number of consecutive digits of s starting at position i
DigitRun(s, i) ==
  IF i > Len(s) \/ ~IsDigit(s[i]) THEN 0
  ELSE CHOOSE n \in 1..(Len(s) - i + 1) :
         /\ \A k \in i..(i + n - 1) : IsDigit(s[k])
         /\ (i + n > Len(s) \/ ~IsDigit(s[i + n]))

Sub(s, i, n) == SubSeq(s, i, i + n - 1)

-----------------------------------------------------------------------------
(* versioning                                                              *)

NoMatch == [matched |-> FALSE]

\* /^v(20\d{2})\.(\d{1,3})(?:\.(\d{1,3}))?-beta\.(\d{1,4})(?:\.(\d{1,4}))?$/
\* An optional group that did not take part in the match is undefined.
MatchBetaHotfix(s) ==
  IF ~(StartsWithAt(s, 1, <<"v", "2", "0">>) /\ DigitRun(s, 4) = 2
       /\ StartsWithAt(s, 6, S_dot))
  THEN NoMatch
  ELSE
    LET nRev == DigitRun(s, 7)
        pPatch == 7 + nRev
        hasPatch == StartsWithAt(s, pPatch, S_dot)
        nPatch == IF hasPatch THEN DigitRun(s, pPatch + 1) ELSE 0
        pBeta == IF hasPatch THEN pPatch + 1 + nPatch ELSE pPatch
        pIter == pBeta + 6
        nIter == DigitRun(s, pIter)
        pFix == pIter + nIter
        hasFix == pFix <= Len(s)
        nFix == IF hasFix THEN DigitRun(s, pFix + 1) ELSE 0
    IN
    IF /\ nRev \in 1..3
       /\ (hasPatch => nPatch \in 1..3)
       /\ StartsWithAt(s, pBeta, S_dashBeta \o S_dot)
       /\ nIter \in 1..4
       /\ (hasFix => /\ StartsWithAt(s, pFix, S_dot)
                     /\ nFix \in 1..4
                     /\ pFix + nFix = Len(s))
    THEN [matched |-> TRUE,
          betaYear |-> Sub(s, 2, 4),
          betaRevision |-> Sub(s, 7, nRev),
          betaPatch |-> IF hasPatch THEN Sub(s, pPatch + 1, nPatch) ELSE Undefined,
          betaIteration |-> Sub(s, pIter, nIter),
          betaFix |-> IF hasFix THEN Sub(s, pFix + 1, nFix) ELSE Undefined]
    ELSE NoMatch

\* /^v20\d{2}\.\d{1,3}-alpha.\d{1,4}$/.test(s): the dot after "alpha" is not
\* escaped in the source and stands for any character
TestAlphaBase(s) ==
  /\ StartsWithAt(s, 1, <<"v", "2", "0">>)
  /\ DigitRun(s, 4) = 2
  /\ StartsWithAt(s, 6, S_dot)
  /\ LET nRev == DigitRun(s, 7)
         pIter == 7 + nRev + 7
     IN /\ nRev \in 1..3
        /\ StartsWithAt(s, 7 + nRev, S_dashAlpha)
        /\ pIter - 1 <= Len(s)
        /\ DigitRun(s, pIter) \in 1..4
        /\ pIter + DigitRun(s, pIter) - 1 = Len(s)

Returned(v) == [ok |-> TRUE, value |-> v, error |-> "none"]
Thrown(e) == [ok |-> FALSE, value |-> Undefined, error |-> e]

\* line 45, with an absent fix counted as 1
NextFix_AbsentAsOne(betaFix) == ToNumber(OrElse(betaFix, <<"1">>)) + 1

\* line 45: +(betaFix ?? '0') + 1
NextFix(betaFix) == ToNumber(OrElse(betaFix, <<"0">>)) + 1

\* lines 23-50: the hotfix of a beta release
VersioningBetaHotfix(latestStageVersion) ==
  LET betaVersion == latestStageVersion
      match == MatchBetaHotfix(betaVersion)
  IN
  IF betaVersion = Undefined \/ betaVersion = <<>>
  THEN Thrown("no_previous_beta")
  ELSE IF ~match.matched
  THEN Thrown("malformed_previous_beta")
  ELSE
    LET nextFix == NextFix(match.betaFix)
        patchSegment == IF match.betaPatch # Undefined /\ match.betaPatch # <<>>
                        THEN S_dot \o match.betaPatch ELSE <<>>
    IN Returned(S_v \o match.betaYear \o S_dot \o match.betaRevision \o patchSegment
                \o S_dashBeta \o S_dot \o match.betaIteration \o S_dot
                \o NumToStr(nextFix))

\* lines 54-77, with the revision increased whatever the year
WorkingVersion_NoSpike(hotfix, lastProductionVersion, currentYear) ==
  LET productionVersion ==
        IF lastProductionVersion = Undefined THEN UndefinedArray
        ELSE Reverse(Split(PopValue(Split(lastProductionVersion, S_v)), S_dot))
  IN
  IF productionVersion # UndefinedArray /\ Len(productionVersion) >= 2
  THEN
    LET productionYear == PopValue(productionVersion)
        rest1 == PopRest(productionVersion)
        spike == productionYear # currentYear
        year == IF hotfix THEN productionYear ELSE currentYear
        revision0 == ToNumber(PopValue(rest1))
        rest2 == PopRest(rest1)
        revision == IF hotfix THEN revision0
                    ELSE PlusOne(revision0)
        fix == IF hotfix
               THEN S_dot \o NumToStr(PlusOne(ToNumber(OrElse(PopValue(rest2), <<"0">>))))
               ELSE <<>>
    IN S_v \o year \o S_dot \o NumToStr(revision) \o fix
  ELSE S_v \o currentYear \o S_dot \o <<"1">>

\* lines 54-77, with an absent patch counted as 1
WorkingVersion_PatchFromOne(hotfix, lastProductionVersion, currentYear) ==
  LET productionVersion ==
        IF lastProductionVersion = Undefined THEN UndefinedArray
        ELSE Reverse(Split(PopValue(Split(lastProductionVersion, S_v)), S_dot))
  IN
  IF productionVersion # UndefinedArray /\ Len(productionVersion) >= 2
  THEN
    LET productionYear == PopValue(productionVersion)
        rest1 == PopRest(productionVersion)
        spike == productionYear # currentYear
        year == IF hotfix THEN productionYear ELSE currentYear
        revision0 == ToNumber(PopValue(rest1))
        rest2 == PopRest(rest1)
        revision == IF hotfix THEN revision0
                    ELSE IF spike THEN 1 ELSE PlusOne(revision0)
        fix == IF hotfix
               THEN S_dot \o NumToStr(PlusOne(ToNumber(OrElse(PopValue(rest2), <<"1">>))))
               ELSE <<>>
    IN S_v \o year \o S_dot \o NumToStr(revision) \o fix
  ELSE S_v \o currentYear \o S_dot \o <<"1">>

\* lines 54-77: the working version derived from the last production version
WorkingVersion(hotfix, lastProductionVersion, currentYear) ==
  LET productionVersion ==
        IF lastProductionVersion = Undefined THEN UndefinedArray
        ELSE Reverse(Split(PopValue(Split(lastProductionVersion, S_v)), S_dot))
  IN
  IF productionVersion # UndefinedArray /\ Len(productionVersion) >= 2
  THEN
    LET productionYear == PopValue(productionVersion)
        rest1 == PopRest(productionVersion)
        spike == productionYear # currentYear
        year == IF hotfix THEN productionYear ELSE currentYear
        revision0 == ToNumber(PopValue(rest1))
        rest2 == PopRest(rest1)
        revision == IF hotfix THEN revision0
                    ELSE IF spike THEN 1 ELSE PlusOne(revision0)
        fix == IF hotfix
               THEN S_dot \o NumToStr(PlusOne(ToNumber(OrElse(PopValue(rest2), <<"0">>))))
               ELSE <<>>
    IN S_v \o year \o S_dot \o NumToStr(revision) \o fix
  ELSE S_v \o currentYear \o S_dot \o <<"1">>

\* line 85, with the explicit reference ignored
BetaBase_IgnoresReference(reference, previousVersion) == previousVersion

\* line 85: reference === '' ? previousVersion : reference
BetaBase(reference, previousVersion) ==
  IF reference = <<>> THEN previousVersion ELSE reference

\* lines 83-96: the beta version made from the base alpha version
VersioningBeta(reference, previousVersion) ==
  LET alphaVersion == BetaBase(reference, previousVersion) IN
  IF alphaVersion = Undefined \/ alphaVersion = <<>>
  THEN Thrown("no_previous_alpha")
  ELSE IF ~TestAlphaBase(alphaVersion)
  THEN Thrown("malformed_previous_alpha")
  ELSE Returned(Join(Split(alphaVersion, S_alpha), S_beta))

\* line 116, with the iteration not increased
NextAlphaIteration_Same(alphaIteration) == ToNumber(OrElse(alphaIteration, <<"0">>))

\* line 116: +(alphaIteration ?? '0') + 1
NextAlphaIteration(alphaIteration) == PlusOne(ToNumber(OrElse(alphaIteration, <<"0">>)))

\* lines 98-117, with the previous alpha continued whenever its year is the working year
VersioningAlpha_YearOnly(version, previousVersion) ==
  LET alphaVersion == IF previousVersion = Undefined THEN UndefinedArray
                      ELSE Reverse(Split(PopValue(Split(previousVersion, S_v)), S_dot))
      absent == alphaVersion = UndefinedArray
      alphaYear == IF absent THEN Undefined ELSE PopValue(alphaVersion)
      a1 == IF absent THEN <<>> ELSE PopRest(alphaVersion)
      popped == IF absent THEN Undefined ELSE PopValue(a1)
      alphaRevision == IF popped = Undefined THEN Undefined
                       ELSE PopValue(Reverse(Split(popped, S_dashAlpha)))
      a2 == IF absent THEN <<>> ELSE PopRest(a1)
      alphaIteration == IF absent THEN Undefined ELSE PopValue(a2)
      baseVersion == Reverse(Split(PopValue(Split(version, S_v)), S_dot))
      baseYear == PopValue(baseVersion)
      baseRevision == PopValue(PopRest(baseVersion))
  IN
  IF baseYear = OrElse(alphaYear, <<>>)
  THEN S_v \o alphaYear \o S_dot \o alphaRevision \o S_dashAlpha \o S_dot
       \o NumToStr(NextAlphaIteration(alphaIteration))
  ELSE S_v \o baseYear \o S_dot \o baseRevision \o S_dashAlpha \o S_dot \o <<"1">>

\* lines 98-117: the alpha version made from the working version
VersioningAlpha(version, previousVersion) ==
  LET alphaVersion == IF previousVersion = Undefined THEN UndefinedArray
                      ELSE Reverse(Split(PopValue(Split(previousVersion, S_v)), S_dot))
      absent == alphaVersion = UndefinedArray
      alphaYear == IF absent THEN Undefined ELSE PopValue(alphaVersion)
      a1 == IF absent THEN <<>> ELSE PopRest(alphaVersion)
      popped == IF absent THEN Undefined ELSE PopValue(a1)
      alphaRevision == IF popped = Undefined THEN Undefined
                       ELSE PopValue(Reverse(Split(popped, S_dashAlpha)))
      a2 == IF absent THEN <<>> ELSE PopRest(a1)
      alphaIteration == IF absent THEN Undefined ELSE PopValue(a2)
      baseVersion == Reverse(Split(PopValue(Split(version, S_v)), S_dot))
      baseYear == PopValue(baseVersion)
      baseRevision == PopValue(PopRest(baseVersion))
  IN
  IF S_v \o baseYear \o S_dot \o baseRevision
       = S_v \o OrElse(alphaYear, <<>>) \o S_dot \o OrElse(alphaRevision, <<>>)
  THEN S_v \o alphaYear \o S_dot \o alphaRevision \o S_dashAlpha \o S_dot
       \o NumToStr(NextAlphaIteration(alphaIteration))
  ELSE S_v \o baseYear \o S_dot \o baseRevision \o S_dashAlpha \o S_dot \o <<"1">>

\* lines 14-121
versioning(stage, reference, hotfix, previousVersion, lastProductionVersion, latestStageVersion, currentYear) ==
  IF hotfix /\ stage = "beta"
  THEN VersioningBetaHotfix(latestStageVersion)
  ELSE
    LET version == WorkingVersion(hotfix, lastProductionVersion, currentYear)
        prerelease == ~hotfix /\ stage # "production"
    IN
    IF ~prerelease THEN Returned(version)
    ELSE IF stage = "beta" THEN VersioningBeta(reference, previousVersion)
    ELSE Returned(VersioningAlpha(version, previousVersion))

-----------------------------------------------------------------------------
(* simplifyVersion, compareVersions, buildExtendedVersion                  *)

IsWordOrDot(c) == c \in {"a", "b", "d", "e", "h", "l", "o", "p", "t", "v", "N", "."} \/ IsDigit(c)

\* /^v(\d+)\.(\d+)(?:\.(\d+))?(?:-([\w.]+))?$/
MatchSimplify(s) ==
  LET nMajor == DigitRun(s, 2)
      pMinor == 2 + nMajor + 1
      nMinor == DigitRun(s, pMinor)
      pPatch == pMinor + nMinor
      hasPatch == StartsWithAt(s, pPatch, S_dot) /\ DigitRun(s, pPatch + 1) >= 1
      nPatch == IF hasPatch THEN DigitRun(s, pPatch + 1) ELSE 0
      pPre == IF hasPatch THEN pPatch + 1 + nPatch ELSE pPatch
      hasPre == pPre <= Len(s)
  IN
  IF /\ StartsWithAt(s, 1, S_v)
     /\ nMajor >= 1
     /\ StartsWithAt(s, 2 + nMajor, S_dot)
     /\ nMinor >= 1
     /\ (hasPre => /\ s[pPre] = "-"
                   /\ pPre < Len(s)
                   /\ \A k \in (pPre + 1)..Len(s) : IsWordOrDot(s[k]))
  THEN [matched |-> TRUE,
        major |-> Sub(s, 2, nMajor),
        minor |-> Sub(s, pMinor, nMinor),
        patch |-> IF hasPatch THEN Sub(s, pPatch + 1, nPatch) ELSE Undefined,
        pre |-> IF hasPre THEN SubSeq(s, pPre + 1, Len(s)) ELSE Undefined]
  ELSE NoMatch

\* part => isNaN(Number(part)) ? part === 'alpha' ? 1000 : part === 'beta' ? 4000 : 0 : Number(part)
PreReleasePart(part) ==
  IF ToNumber(part) = NaN
  THEN IF part = S_alpha THEN 1000 ELSE IF part = S_beta THEN 4000 ELSE 0
  ELSE ToNumber(part)

RECURSIVE SumParts(_)
SumParts(parts) ==
  IF parts = <<>> THEN 0 ELSE PreReleasePart(parts[1]) + SumParts(Tail(parts))

RECURSIVE StripLeadingZeros(_)
StripLeadingZeros(s) ==
  IF Len(s) > 1 /\ s[1] = "0" THEN StripLeadingZeros(Tail(s)) ELSE s

\* The sort key of a version: the decimal numeral obtained by writing major,
\* 100 + minor, 100 + patch and the prerelease sum one after the other, read
\* as a number.  The numeral is kept as its digits (it exceeds the machine
\* integers of the checker); up to 16 digits starting with "20" it is below
\* 2^53 and exact as a JavaScript number.
simplifyVersion(version) ==
  LET matches == MatchSimplify(version) IN
  IF ~matches.matched THEN [thrown |-> TRUE, key |-> <<>>]
  ELSE
    LET major == DigitsToNum(matches.major)
        minor == 100 + DigitsToNum(matches.minor)
        patch == 100 + (IF matches.patch # Undefined THEN DigitsToNum(matches.patch) ELSE 0)
        preRelease == IF matches.pre # Undefined
                      THEN SumParts(Split(matches.pre, S_dot)) ELSE 8000
    IN [thrown |-> FALSE,
        key |-> StripLeadingZeros(NumToStr(major) \o NumToStr(minor) \o NumToStr(patch)
                                  \o NumToStr(preRelease))]

\* sign of x - y for two numerals without leading zeros
RECURSIVE NumeralCompare(_, _)
NumeralCompare(x, y) ==
  IF Len(x) # Len(y) THEN (IF Len(x) < Len(y) THEN -1 ELSE 1)
  ELSE IF x = <<>> THEN 0
  ELSE IF DigitVal(x[1]) # DigitVal(y[1])
       THEN (IF DigitVal(x[1]) < DigitVal(y[1]) THEN -1 ELSE 1)
  ELSE NumeralCompare(Tail(x), Tail(y))

\* the sign of simplifyVersion(b) - simplifyVersion(a)
compareVersions(a, b) ==
  NumeralCompare(simplifyVersion(b).key, simplifyVersion(a).key)

compareVersionsThrows(a, b) == simplifyVersion(a).thrown \/ simplifyVersion(b).thrown

Min(x, y) == IF x <= y THEN x ELSE y

\* line 157, with '.0' inserted whether or not a patch segment is present
AssembleExtended_AlwaysInserts(majorMinor, patch, suffix) ==
  majorMinor \o <<".", "0">> \o OrElse(patch, <<>>) \o suffix

\* line 157: `${majorMinor}${patch ?? '.0'}${suffix}`
AssembleExtended(majorMinor, patch, suffix) ==
  majorMinor \o OrElse(patch, <<".", "0">>) \o suffix

\* lines 146-158; the groups of /^(v20\d{2}\.\d{1,3})(\.\d{1,3})?(.*)$/ are greedy
buildExtendedVersion(version) ==
  LET n1 == Min(3, DigitRun(version, 7))
      pPatch == 7 + n1
      hasPatch == StartsWithAt(version, pPatch, S_dot) /\ DigitRun(version, pPatch + 1) >= 1
      nPatch == IF hasPatch THEN Min(3, DigitRun(version, pPatch + 1)) ELSE 0
      majorMinor == SubSeq(version, 1, pPatch - 1)
      patch == IF hasPatch THEN Sub(version, pPatch, 1 + nPatch) ELSE Undefined
      pSuffix == IF hasPatch THEN pPatch + 1 + nPatch ELSE pPatch
      suffix == SubSeq(version, pSuffix, Len(version))
  IN
  IF ~(/\ StartsWithAt(version, 1, <<"v", "2", "0">>)
       /\ DigitRun(version, 4) >= 2
       /\ StartsWithAt(version, 6, S_dot)
       /\ n1 >= 1)
  THEN version
  ELSE AssembleExtended(majorMinor, patch, suffix)

-----------------------------------------------------------------------------
(* Version strings the calls are made with.                                *)

Absent == 0 - 1

Years == {2025, 2026}
YearStrs == {NumToStr(y) : y \in Years}
Revs == 1..MaxRev
Patches == 0..MaxPatch
\* 9 and 9999 are the values at which the next number has one more digit
Iters == (1..MaxIter) \cup {9, 9999}
Fixes == 1..MaxFix

MkProd(y, r, p) ==
  S_v \o NumToStr(y) \o S_dot \o NumToStr(r)
      \o (IF p = Absent THEN <<>> ELSE S_dot \o NumToStr(p))

MkPre(y, r, p, pre, i, f) ==
  MkProd(y, r, p) \o <<"-">> \o pre \o S_dot \o NumToStr(i)
      \o (IF f = Absent THEN <<>> ELSE S_dot \o NumToStr(f))

MkAlpha(y, r, i) == MkPre(y, r, Absent, S_alpha, i, Absent)

AlphaVersions == {MkAlpha(y, r, i) : y \in Years, r \in Revs, i \in Iters}
ProdVersions == {MkProd(y, r, p) : y \in Years, r \in Revs, p \in {Absent} \cup Patches}
BetaVersions ==
  {MkPre(y, r, p, S_beta, i, f) :
     y \in Years, r \in Revs, p \in {Absent} \cup Patches, i \in Iters,
     f \in {Absent} \cup Fixes}

SomeAlpha == MkAlpha(2025, 1, 1)
SomeProd == MkProd(2025, 1, Absent)
SomeBeta == MkPre(2025, 1, Absent, S_beta, 1, Absent)

\* strings that are no version of the required form
Malformed ==
  {S_develop, MkPre(2025, 1, Absent, S_alpha, 1, 1), S_v \o <<"2", "0", "2", "5">>,
   \* "v2025.1-alpha-1" and "v2025.1-alpha12"
   MkProd(2025, 1, Absent) \o S_dashAlpha \o <<"-", "1">>,
   MkProd(2025, 1, Absent) \o S_dashAlpha \o <<"1", "2">>}

Stages == {"alpha", "beta", "production"}

NoCall == [ok |-> FALSE, value |-> Undefined, error |-> "not_called"]

Inputs(stages, hotfixes, refs, prevs, prods, latests) ==
  {[stage |-> s, hotfix |-> h, reference |-> ref, previousVersion |-> prev,
    lastProductionVersion |-> prod, latestStageVersion |-> latest, currentYear |-> cy] :
     s \in stages, h \in hotfixes, cy \in YearStrs, ref \in refs, prev \in prevs,
     prod \in prods, latest \in latests}

\* The arguments a call is made with: the ones the selected path of versioning
\* reads range over all their values, the others over a few.
VersioningInputs ==
  \* the hotfix of a beta release reads latestStageVersion only
  Inputs({"beta"}, {TRUE}, {<<>>, SomeAlpha}, {Undefined, SomeAlpha}, {Undefined, SomeProd},
         {Undefined, <<>>, SomeAlpha, S_develop} \cup BetaVersions)
  \cup
  \* a beta release reads reference and previousVersion
  Inputs({"beta"}, {FALSE}, {<<>>, SomeBeta} \cup AlphaVersions \cup Malformed,
         {Undefined, S_develop} \cup AlphaVersions, {Undefined, SomeProd}, {Undefined})
  \cup
  \* an alpha release reads previousVersion and lastProductionVersion
  Inputs({"alpha"}, {FALSE}, {<<>>, S_develop}, {Undefined} \cup AlphaVersions,
         {Undefined, S_v \o <<"2", "0", "2", "5">>} \cup ProdVersions, {Undefined, SomeBeta})
  \cup
  \* a production release and a hotfix read lastProductionVersion
  Inputs({"production"}, BOOLEAN, {<<>>, S_develop}, {Undefined, SomeProd},
         {Undefined, S_v \o <<"2", "0", "2", "5">>} \cup ProdVersions, {Undefined})
  \cup
  Inputs({"alpha"}, {TRUE}, {S_develop}, {Undefined, SomeAlpha},
         {Undefined} \cup ProdVersions, {Undefined})

CallVersioning(i) ==
  versioning(i.stage, i.reference, i.hotfix, i.previousVersion,
             i.lastProductionVersion, i.latestStageVersion, i.currentYear)

\* The arguments of the next call after the version just computed was tagged:
\* it is the newest tag of the stage's branch.
NextInput(i, v) ==
  IF i.stage = "alpha" THEN [i EXCEPT !.previousVersion = v]
  ELSE IF i.stage = "production"
       THEN [i EXCEPT !.previousVersion = v, !.lastProductionVersion = v]
  ELSE IF i.hotfix THEN [i EXCEPT !.latestStageVersion = v]
  ELSE i

OrderIdle ==
  /\ va = <<>> /\ vb = <<>> /\ vc = <<>>
  /\ cmp = <<>> /\ ext = <<>>

VersionIdle ==
  /\ vin = <<>> /\ vout = NoCall /\ vfirst = NoCall /\ calls = 0

GitIdle ==
  /\ git = <<>> /\ repo = <<>> /\ prs = <<>>

ForkIdle ==
  /\ cin = <<>> /\ cout = <<>>
  /\ hin = <<>> /\ hres = <<>>
  /\ pin = <<>> /\ pres = <<>>

FreshIdle ==
  /\ host = <<>> /\ fin = <<>> /\ fres = <<>> /\ fprev = <<>> /\ fcalls = 0

RunIdle ==
  /\ inp = <<>> /\ pc = "" /\ rs = <<>> /\ world = <<>> /\ outs = <<>> /\ io = <<>>

VersioningInit ==
  /\ vin \in VersioningInputs
  /\ vout = NoCall
  /\ vfirst = NoCall
  /\ calls = 0
  /\ OrderIdle
  /\ GitIdle
  /\ ForkIdle
  /\ FreshIdle
  /\ RunIdle

\* the first call of versioning
Versioning ==
  /\ calls = 0
  /\ vout' = CallVersioning(vin)
  /\ calls' = 1
  /\ UNCHANGED <<vin, vfirst, exceptVersion>>

\* versioning called again with its own result as the newest tag
VersioningAgain ==
  /\ calls >= 1
  /\ calls < MaxCalls
  /\ vout.ok
  /\ vin' = NextInput(vin, vout.value)
  /\ vfirst' = vout
  /\ vout' = CallVersioning(NextInput(vin, vout.value))
  /\ calls' = calls + 1
  /\ UNCHANGED exceptVersion

vars == <<versionVars, orderVars, gitVars, forkVars, freshVars, runVars>>

VersioningNext == Versioning \/ VersioningAgain

SpecVersioning == VersioningInit /\ [][VersioningNext]_vars

-----------------------------------------------------------------------------
(* compareVersions on triples of versions, buildExtendedVersion on one.    *)

\* 3001 is an iteration at which the prerelease sum of an alpha reaches a beta's
OrderVersions ==
  {MkProd(y, r, p) : y \in Years, r \in Revs, p \in {Absent, 1}}
  \cup {MkPre(y, 1, p, pre, i, f) :
          y \in Years, p \in {Absent, 1}, pre \in {S_alpha, S_beta},
          i \in {1, 3001}, f \in {Absent, 1}}

ExtendedVersions ==
  {MkProd(y, r, p) : y \in Years, r \in Revs \cup {999}, p \in {Absent, 999} \cup Patches}
  \cup {MkPre(y, r, p, pre, i, f) :
          y \in Years, r \in Revs \cup {999}, p \in {Absent, 999} \cup Patches,
          pre \in {S_alpha, S_beta}, i \in Iters, f \in {Absent} \cup Fixes}

OrderInit ==
  /\ va \in OrderVersions
  /\ vb \in OrderVersions
  /\ vc \in OrderVersions
  /\ cmp = <<>>
  /\ ext = <<>>
  /\ VersionIdle
  /\ GitIdle
  /\ ForkIdle
  /\ FreshIdle
  /\ RunIdle

\* compareVersions applied to every pair the order laws speak of
Compare ==
  /\ cmp = <<>>
  /\ cmp' = [aa |-> compareVersions(va, va), ab |-> compareVersions(va, vb),
             ba |-> compareVersions(vb, va), bc |-> compareVersions(vb, vc),
             ac |-> compareVersions(va, vc)]
  /\ UNCHANGED <<va, vb, vc, ext, exceptOrder>>

OrderNext == Compare

SpecOrder == OrderInit /\ [][OrderNext]_vars

ExtendedInit ==
  /\ va \in ExtendedVersions \cup Malformed
  /\ vb = <<>>
  /\ vc = <<>>
  /\ cmp = <<>>
  /\ ext = <<>>
  /\ VersionIdle
  /\ GitIdle
  /\ ForkIdle
  /\ FreshIdle
  /\ RunIdle

\* buildExtendedVersion applied to a version and then to its own result
BuildExtended ==
  /\ ext = <<>>
  /\ ext' = <<buildExtendedVersion(va), buildExtendedVersion(buildExtendedVersion(va))>>
  /\ UNCHANGED <<va, vb, vc, cmp, exceptOrder>>

ExtendedNext == BuildExtended

SpecExtended == ExtendedInit /\ [][ExtendedNext]_vars

-----------------------------------------------------------------------------
(* Claims about the version functions.                                     *)

\* C1: compareVersions is a strict total order on the versions of the grammar:
\* a version compares equal to itself, the sign of compareVersions(a, b) is the
\* opposite of the sign of compareVersions(b, a), the order is transitive, and
\* two different version strings never compare as equal.
C1_StrictTotalOrder ==
  cmp # <<>> =>
    /\ cmp.aa = 0
    /\ cmp.ab = 0 - cmp.ba
    /\ (cmp.ab <= 0 /\ cmp.bc <= 0) => cmp.ac <= 0
    /\ (cmp.ab < 0 /\ cmp.bc < 0) => cmp.ac < 0
    /\ (va # vb) => cmp.ab # 0

\* C2: two successive alpha computations in the same year, the first result
\* passed as previousVersion and lastProductionVersion unchanged: the second
\* result has the year and revision of the first and the next iteration.
C2_AlphaIterationIncrements ==
  (vin # <<>> /\ vin.stage = "alpha" /\ ~vin.hotfix /\ calls >= 2) =>
    /\ vfirst.ok
    /\ vout.ok
    /\ LET i1 == ToNumber(PopValue(Split(vfirst.value, S_dot))) IN
       \E y \in Years, r \in 1..(MaxRev + 1) :
         /\ i1 >= 1
         /\ vfirst.value = MkAlpha(y, r, i1)
         /\ vout.value = MkAlpha(y, r, i1 + 1)

C2_Witness ==
  /\ vin # <<>> /\ vin.stage = "alpha" /\ ~vin.hotfix /\ calls = 2
  /\ vin.lastProductionVersion = MkProd(2025, 1, Absent)
  /\ vfirst.value = MkAlpha(2025, 2, 10)
  /\ vout.value = MkAlpha(2025, 2, 11)

\* the base alpha version of a beta release with its beta version
AlphaToBeta ==
  {<<MkAlpha(y, r, i), MkPre(y, r, Absent, S_beta, i, Absent)>> :
     y \in Years, r \in Revs, i \in Iters}

\* C3: a beta release that is no hotfix takes the reference when it is not
\* empty and otherwise previousVersion as its base, and for a base
\* v<year>.<rev>-alpha.<iter> returns v<year>.<rev>-beta.<iter>, whatever
\* lastProductionVersion and the current year are.
C3_BetaFromAlpha ==
  (vin # <<>> /\ vin.stage = "beta" /\ ~vin.hotfix /\ calls >= 1) =>
    LET base == IF vin.reference # <<>> THEN vin.reference ELSE vin.previousVersion IN
    \A pair \in AlphaToBeta :
      (base = pair[1]) => (vout.ok /\ vout.value = pair[2])

C3_Witness ==
  /\ vin # <<>> /\ vin.stage = "beta" /\ ~vin.hotfix /\ calls = 1
  /\ vin.reference = <<>>
  /\ vin.previousVersion = MkAlpha(2025, 2, 2)
  /\ vin.lastProductionVersion = SomeProd
  /\ vout.value = MkPre(2025, 2, Absent, S_beta, 2, Absent)

\* the latest beta version with the version of its next hotfix
BetaToHotfix ==
  {<<MkPre(y, r, p, S_beta, i, f),
     MkPre(y, r, p, S_beta, i, (IF f = Absent THEN 0 ELSE f) + 1)>> :
     y \in Years, r \in Revs, p \in {Absent} \cup Patches, i \in Iters,
     f \in {Absent} \cup (1..(MaxFix + MaxCalls))}

\* C4: the hotfix of a beta release returns the latest beta version with its
\* fix component increased by one (an absent fix counting as 0) and year,
\* revision, patch and iteration kept; reference, previousVersion and
\* lastProductionVersion do not influence the result.
C4_BetaHotfixIncrementsFix ==
  (vin # <<>> /\ vin.stage = "beta" /\ vin.hotfix /\ calls >= 1) =>
    \A pair \in BetaToHotfix :
      (vin.latestStageVersion = pair[1]) => (vout.ok /\ vout.value = pair[2])

C4_Witness ==
  /\ vin # <<>> /\ vin.stage = "beta" /\ vin.hotfix /\ calls = 1
  /\ vin.latestStageVersion = MkPre(2025, 1, Absent, S_beta, 2, Absent)
  /\ vin.reference = SomeAlpha
  /\ vout.value = MkPre(2025, 1, Absent, S_beta, 2, 1)

\* C9: buildExtendedVersion is idempotent on every valid version string.
C9_ExtendedIdempotent ==
  ext # <<>> => ext[2] = ext[1]

C9_Witness ==
  /\ ext # <<>>
  /\ va = MkAlpha(2025, 1, 2)
  /\ ext[1] = MkPre(2025, 1, 0, S_alpha, 2, Absent)

-----------------------------------------------------------------------------
(* Fork provenance: the git commands a check issues and what it decides.   *)
(* git holds, for each command the code can issue, the output the local    *)
(* repository gives: the code reads nothing else of the repository.        *)

Branches == {"develop", "main", "release"}

\* Number.POSITIVE_INFINITY: above every commit count
Infinity == 1000000

\* a command printed no commit (empty stdout), and the null it becomes
NoCommit == 0

\* refs/remotes/origin/<branch> and refs/remotes/origin/pr-<number>
BranchRef(branch) == <<"branch", branch>>
PrRef(prNumber) == <<"pr", prNumber>>

forkPoint(base, headLocalRef) ==
  LET fpTry == git.forkPointOut[<<base, headLocalRef>>]
      fp == IF fpTry # NoCommit THEN fpTry ELSE git.mergeBaseOut[<<base, headLocalRef>>]
  IN fp

forkDist(base, headLocalRef) ==
  LET fp == forkPoint(base, headLocalRef) IN
  IF fp = NoCommit THEN Infinity
  ELSE LET n == git.countOut[<<base, headLocalRef>>] IN
       IF n # NaN THEN n ELSE Infinity

\* the mutation of Closer that lets a tie displace the earlier branch
Closer_OrEqual(d, bestDist) ==
  \/ (bestDist = Infinity /\ d # Infinity)
  \/ (d # Infinity /\ bestDist # Infinity /\ d <= bestDist)

\* the condition under which the scan replaces the best branch so far
Closer(d, bestDist) ==
  \/ (bestDist = Infinity /\ d # Infinity)
  \/ (d # Infinity /\ bestDist # Infinity /\ d < bestDist)

RECURSIVE ChooseLoop(_, _, _, _)
ChooseLoop(distances, preferenceOrder, i, bestBase) ==
  IF i > Len(preferenceOrder) THEN bestBase
  ELSE LET b == preferenceOrder[i] IN
       IF Closer(distances[b], distances[bestBase])
       THEN ChooseLoop(distances, preferenceOrder, i + 1, b)
       ELSE ChooseLoop(distances, preferenceOrder, i + 1, bestBase)

chooseBestBase(distances, preferenceOrder) ==
  ChooseLoop(distances, preferenceOrder, 2, preferenceOrder[1])

\* Array.from(new Set(array)): the first occurrence of each element, in order
RECURSIVE Dedupe(_)
Dedupe(s) ==
  IF s = <<>> THEN <<>>
  ELSE LET rest == Dedupe(SubSeq(s, 1, Len(s) - 1))
           last == s[Len(s)]
       IN IF \E i \in 1..Len(rest) : rest[i] = last THEN rest ELSE Append(rest, last)

InSeq(x, s) == \E i \in 1..Len(s) : s[i] = x

-----------------------------------------------------------------------------
(* assertOpenPRs                                                           *)

DEFAULT_ASSERT_OPEN_PR_OPTIONS ==
  [baseBranch |-> "develop", forbiddenBranches |-> <<"main", "release">>,
   summaryTitle |-> "Open Hotfix PRs Detected:"]

MainIntoReleaseOptions ==
  [baseBranch |-> "release", forbiddenBranches |-> <<"main">>,
   summaryTitle |-> "Open main->release PRs Detected:"]

NoSummary == [written |-> FALSE, title |-> "", list |-> <<>>]

\* the mutation of PrResult that throws without writing the summary
PrResult_NoSummary(outcome, offenders, title) ==
  [outcome |-> outcome, offenders |-> offenders,
   errorCount |-> IF outcome = "BlockingHotfixPRError" THEN Len(offenders) ELSE 0,
   summary |-> NoSummary]

\* what a call leaves: how it ended, the summary it wrote (the offenders are
\* listed as `- [title](url)` lines) and the count its error message carries
PrResult(outcome, offenders, title) ==
  [outcome |-> outcome, offenders |-> offenders,
   errorCount |-> IF outcome = "BlockingHotfixPRError" THEN Len(offenders) ELSE 0,
   summary |-> IF outcome = "BlockingHotfixPRError"
               THEN [written |-> TRUE, title |-> title, list |-> offenders]
               ELSE NoSummary]

NoPrResult == PrResult("not_called", <<>>, "")

\* the distances measured for one pull request
PrDistances(localHead, branchesToMeasure) ==
  [b \in Branches |->
     IF InSeq(b, branchesToMeasure) THEN forkDist(b, localHead) ELSE Infinity]

\* the mutation of IsOffender that reports a pull request closest to its base
IsOffender_BaseToo(distances, baseBranch, normalizedForbidden) ==
  LET preference == <<baseBranch>> \o normalizedForbidden
      best == chooseBestBase(distances, preference)
  IN distances[best] # Infinity

\* the mutation of IsOffender that reports every pull request with a forbidden
\* branch at a finite distance, however close the base is
IsOffender_ForbiddenFinite(distances, baseBranch, normalizedForbidden) ==
  \E i \in 1..Len(normalizedForbidden) : distances[normalizedForbidden[i]] # Infinity

IsOffender(distances, baseBranch, normalizedForbidden) ==
  LET preference == <<baseBranch>> \o normalizedForbidden
      best == chooseBestBase(distances, preference)
  IN best # baseBranch /\ InSeq(best, normalizedForbidden) /\ distances[best] # Infinity

\* the loop over the candidates; a fetch that fails ends it with the error
RECURSIVE PrLoop(_, _, _, _, _)
PrLoop(candidates, i, offenders, baseBranch, normalizedForbidden) ==
  IF i > Len(candidates) THEN [failed |-> FALSE, offenders |-> offenders]
  ELSE LET prNumber == candidates[i].number
           localHead == PrRef(prNumber)
       IN IF localHead \in git.headFails
          THEN [failed |-> TRUE, offenders |-> offenders]
          ELSE LET branchesToMeasure == Dedupe(<<baseBranch>> \o normalizedForbidden)
                   distances == PrDistances(localHead, branchesToMeasure)
               IN PrLoop(candidates, i + 1,
                         IF IsOffender(distances, baseBranch, normalizedForbidden)
                         THEN Append(offenders, prNumber) ELSE offenders,
                         baseBranch, normalizedForbidden)

assertOpenPRs(includeDrafts, options) ==
  LET baseBranch == options.baseBranch
      NotBase(branch) == branch # baseBranch
      normalizedForbidden == Dedupe(SelectSeq(options.forbiddenBranches, NotBase))
  IN
  IF Len(normalizedForbidden) = 0 THEN PrResult("ok", <<>>, "")
  ELSE IF git.fetchFails THEN PrResult("git_error", <<>>, "")
  ELSE IF ~prs.ok THEN PrResult("api_error", <<>>, "")
  ELSE
    LET NotDraft(p) == ~p.draft
        list == prs.open[baseBranch]
        candidates == IF includeDrafts THEN list ELSE SelectSeq(list, NotDraft)
    IN
    IF Len(candidates) = 0 THEN PrResult("ok", <<>>, "")
    ELSE
      LET loop == PrLoop(candidates, 1, <<>>, baseBranch, normalizedForbidden) IN
      IF loop.failed THEN PrResult("git_error", <<>>, "")
      ELSE IF Len(loop.offenders) > 0
           THEN PrResult("BlockingHotfixPRError", loop.offenders, options.summaryTitle)
      ELSE PrResult("ok", <<>>, "")

-----------------------------------------------------------------------------
(* assertCorrectHotfixBranch                                               *)

shareTip(branchTips, a, b) ==
  branchTips[a] # NoCommit /\ branchTips[b] # NoCommit /\ branchTips[a] = branchTips[b]

HotfixPreference(stageBranch) ==
  IF stageBranch = "main" THEN <<"main", "release", "develop">>
  ELSE <<"release", "main", "develop">>

\* competingBranches.reduce(...) without an initial value, on [branch, distance] pairs
RECURSIVE ReduceCloser(_, _, _)
ReduceCloser(competingBranches, i, best) ==
  IF i > Len(competingBranches) THEN best
  ELSE LET current == competingBranches[i] IN
       IF current[2] = Infinity THEN ReduceCloser(competingBranches, i + 1, best)
       ELSE IF best[2] = Infinity \/ current[2] < best[2]
            THEN ReduceCloser(competingBranches, i + 1, current)
       ELSE ReduceCloser(competingBranches, i + 1, best)

NoHotfixDetail ==
  [distances |-> [b \in Branches |-> Infinity], detected |-> "",
   competing |-> <<>>, stageForkMatchesHead |-> FALSE, closerBranch |-> ""]

HotfixResult(outcome, summaryWritten, detail) ==
  [outcome |-> outcome, summaryWritten |-> summaryWritten, detail |-> detail]

NoHotfixResult == HotfixResult("not_called", FALSE, NoHotfixDetail)

\* the mutation of HotfixOk that accepts a matching head whatever was detected
HotfixOk_HeadMatchAlone(detected, stageBranch, tieOrBetterOther, stageForkMatchesHead) ==
  \/ (detected = stageBranch /\ ~tieOrBetterOther)
  \/ stageForkMatchesHead

\* the mutation of HotfixOk without the case of a branch created at the tip
HotfixOk_NoTieOnly(detected, stageBranch, tieOrBetterOther, stageForkMatchesHead) ==
  detected = stageBranch /\ ~tieOrBetterOther

\* the mutation of HotfixOk that accepts whatever competes
HotfixOk_DetectedOnly(detected, stageBranch, tieOrBetterOther, stageForkMatchesHead) ==
  detected = stageBranch

HotfixOk(detected, stageBranch, tieOrBetterOther, stageForkMatchesHead) ==
  \/ (detected = stageBranch /\ ~tieOrBetterOther)
  \/ (detected = stageBranch /\ stageForkMatchesHead)

assertCorrectHotfixBranch(branch, stageBranch) ==
  LET localRef == BranchRef(branch) IN
  IF git.fetchFails \/ localRef \in git.headFails
  THEN HotfixResult("git_error", FALSE, NoHotfixDetail)
  ELSE
    LET distances == [b \in Branches |-> forkDist(b, localRef)]
        preference == HotfixPreference(stageBranch)
        detected == chooseBestBase(distances, preference)
        branchTips == [b \in Branches |-> git.tip[b]]
        forkPoints == [b \in Branches |-> forkPoint(b, localRef)]
        normalizedDistances ==
          [b \in Branches |->
             IF b # stageBranch /\ shareTip(branchTips, b, stageBranch)
             THEN Infinity ELSE distances[b]]
        expectedDist == normalizedDistances[stageBranch]
        entries == <<<<"develop", normalizedDistances["develop"]>>,
                     <<"main", normalizedDistances["main"]>>,
                     <<"release", normalizedDistances["release"]>>>>
        Competes(e) ==
          /\ e[1] # stageBranch
          /\ e[2] # Infinity
          /\ expectedDist # Infinity
          /\ e[2] <= expectedDist
          /\ ~shareTip(branchTips, e[1], stageBranch)
        competingBranches == SelectSeq(entries, Competes)
        tieOrBetterOther == Len(competingBranches) > 0
        stageForkMatchesHead ==
          /\ forkPoints[stageBranch] # NoCommit
          /\ branchTips[stageBranch] # NoCommit
          /\ forkPoints[stageBranch] = branchTips[stageBranch]
        ok == HotfixOk(detected, stageBranch, tieOrBetterOther, stageForkMatchesHead)
        closerBranch ==
          IF tieOrBetterOther /\ detected = stageBranch
          THEN ReduceCloser(competingBranches, 2, competingBranches[1])[1]
          ELSE detected
        detail == [distances |-> distances, detected |-> detected,
                   competing |-> competingBranches,
                   stageForkMatchesHead |-> stageForkMatchesHead,
                   closerBranch |-> IF ok THEN "" ELSE closerBranch]
    IN IF ok THEN HotfixResult("ok", FALSE, detail)
       ELSE HotfixResult("not_based_on_stage", TRUE, detail)

-----------------------------------------------------------------------------
(* chooseBestBase on every distance record and preference order.           *)

Dists == (0..MaxDist) \cup {Infinity}

PreferenceOrders ==
  {<<a>> : a \in Branches}
  \cup {<<a, b>> : a \in Branches, b \in Branches}
  \cup {<<a, b, c>> : a \in Branches, b \in Branches, c \in Branches}

ChooseInit ==
  /\ cin \in [distances : [Branches -> Dists], preferenceOrder : PreferenceOrders]
  /\ cout = <<>>
  /\ hin = <<>> /\ hres = <<>>
  /\ pin = <<>> /\ pres = <<>>
  /\ GitIdle
  /\ VersionIdle
  /\ OrderIdle
  /\ FreshIdle
  /\ RunIdle

Choose ==
  /\ cout = <<>>
  /\ cout' = <<chooseBestBase(cin.distances, cin.preferenceOrder)>>
  /\ UNCHANGED <<cin, hin, hres, pin, pres, exceptFork>>

ChooseNext == Choose

SpecChoose == ChooseInit /\ [][ChooseNext]_vars

-----------------------------------------------------------------------------
(* assertCorrectHotfixBranch on every answer the git commands can give.    *)

\* the commit hashes the commands print
Hashes == {1, 2}

\* what git rev-list --count prints, read by parseInt
Counts == (0..MaxDist) \cup {NaN}

HotfixBranch == "hotfix"

\* One answer per command and base branch. reflog tells whether the reflog of
\* the remote branches yields the fork points or the plain merge base does.
HotfixAnswers ==
  {[fetchFails |-> FALSE, headFails |-> {},
    forkPointOut |-> [k \in Branches \X {BranchRef(HotfixBranch)} |->
                        IF reflog THEN fp[k[1]] ELSE NoCommit],
    mergeBaseOut |-> [k \in Branches \X {BranchRef(HotfixBranch)} |-> fp[k[1]]],
    countOut |-> [k \in Branches \X {BranchRef(HotfixBranch)} |-> cnt[k[1]]],
    tip |-> tips] :
     reflog \in BOOLEAN,
     fp \in [Branches -> {NoCommit} \cup Hashes],
     cnt \in [Branches -> Counts],
     tips \in [Branches -> {NoCommit} \cup Hashes]}

\* a count is read only for a fork point that was found
Canonical(g) ==
  \A b \in Branches :
    (g.mergeBaseOut[<<b, BranchRef(HotfixBranch)>>] = NoCommit)
      => (g.countOut[<<b, BranchRef(HotfixBranch)>>] = NaN)

FailingFetch(fetchFails, headFails) ==
  [fetchFails |-> fetchFails, headFails |-> headFails,
   forkPointOut |-> [k \in Branches \X {BranchRef(HotfixBranch)} |-> NoCommit],
   mergeBaseOut |-> [k \in Branches \X {BranchRef(HotfixBranch)} |-> NoCommit],
   countOut |-> [k \in Branches \X {BranchRef(HotfixBranch)} |-> NaN],
   tip |-> [b \in Branches |-> NoCommit]]

HotfixInit ==
  /\ git \in {g \in HotfixAnswers : Canonical(g)}
             \cup {FailingFetch(TRUE, {}), FailingFetch(FALSE, {BranchRef(HotfixBranch)})}
  /\ repo = <<>>
  /\ prs = <<>>
  /\ hin \in [branch : {HotfixBranch}, stageBranch : {"main", "release"}]
  /\ hres = NoHotfixResult
  /\ cin = <<>> /\ cout = <<>>
  /\ pin = <<>> /\ pres = <<>>
  /\ VersionIdle
  /\ OrderIdle
  /\ FreshIdle
  /\ RunIdle

AssertCorrectHotfixBranch ==
  /\ hres = NoHotfixResult
  /\ hres' = assertCorrectHotfixBranch(hin.branch, hin.stageBranch)
  /\ UNCHANGED <<cin, cout, hin, pin, pres, exceptFork>>

HotfixNext == AssertCorrectHotfixBranch

SpecHotfix == HotfixInit /\ [][HotfixNext]_vars

-----------------------------------------------------------------------------
(* assertOpenPRs on commit graphs. The commits are numbered in the order   *)
(* they were made, each after the first has one or two earlier parents;    *)
(* the remote branches point at commits; the head branch of a pull request *)
(* was created at a commit of its branch of origin and has commits of its  *)
(* own. The answers of the git commands are the ones git gives on it.      *)

CommitIds == 1..NumCommits

PrNumbers == {1, 2}

Graphs ==
  {p \in [CommitIds -> SUBSET CommitIds] :
     \A c \in CommitIds :
       /\ p[c] \subseteq 1..(c - 1)
       /\ (c > 1) => (p[c] # {})
       /\ Cardinality(p[c]) <= 2}

\* the commits reachable from c, c included
RECURSIVE AncSelf(_, _)
AncSelf(p, c) == {c} \cup UNION {AncSelf(p, q) : q \in p[c]}

\* git merge-base a b: a common ancestor that no other common ancestor descends from
MergeBase(p, a, b) ==
  LET common == AncSelf(p, a) \cap AncSelf(p, b)
      best == {x \in common : \A y \in common \ {x} : x \notin AncSelf(p, y)}
  IN IF best = {} THEN NoCommit ELSE CHOOSE x \in best : TRUE

Tips ==
  {[develop |-> d, main |-> m, release |-> r] :
     d \in CommitIds, m \in CommitIds, r \in CommitIds \cup {NoCommit}}

\* a head branch: created from origin when its tip was base, own commits since;
\* a pull request has at least one commit its base branch develop has not
HeadsOf(p, tips) ==
  {h \in [origin : {"develop", "main"}, base : CommitIds, own : 0..MaxOwn] :
     /\ h.base \in AncSelf(p, tips[h.origin])
     /\ (h.own > 0 \/ h.base \notin AncSelf(p, tips["develop"]))}

Repos ==
  UNION {UNION {[parents : {p}, tips : {tips}, heads : [PrNumbers -> HeadsOf(p, tips)]] :
                  tips \in Tips} : p \in Graphs}

\* origin/<branch> is missing: the command fails and prints nothing
GraphMergeBase(r, branch, n) ==
  IF r.tips[branch] = NoCommit THEN NoCommit
  ELSE MergeBase(r.parents, r.tips[branch], r.heads[n].base)

\* the clone's reflog of origin/<branch> holds the tip only: --fork-point
\* prints it when the head descends from it
GraphForkPoint(r, branch, n) ==
  IF r.tips[branch] # NoCommit /\ r.tips[branch] \in AncSelf(r.parents, r.heads[n].base)
  THEN r.tips[branch] ELSE NoCommit

\* git rev-list --count fp..head: the commits of the head that fp does not reach
GraphCount(r, branch, n) ==
  LET fp == GraphMergeBase(r, branch, n) IN
  IF fp = NoCommit THEN NaN
  ELSE r.heads[n].own
       + Cardinality(AncSelf(r.parents, r.heads[n].base) \ AncSelf(r.parents, fp))

GraphAnswers(r) ==
  [fetchFails |-> FALSE, headFails |-> {},
   forkPointOut |-> [k \in Branches \X {PrRef(n) : n \in PrNumbers} |->
                       GraphForkPoint(r, k[1], k[2][2])],
   mergeBaseOut |-> [k \in Branches \X {PrRef(n) : n \in PrNumbers} |->
                       GraphMergeBase(r, k[1], k[2][2])],
   countOut |-> [k \in Branches \X {PrRef(n) : n \in PrNumbers} |->
                   GraphCount(r, k[1], k[2][2])],
   tip |-> r.tips]

OpenIntoDevelop ==
  [ok |-> TRUE,
   open |-> [develop |-> <<[number |-> 1, draft |-> FALSE], [number |-> 2, draft |-> FALSE]>>,
             main |-> <<>>, release |-> <<>>]]

GraphInit ==
  /\ repo \in Repos
  /\ git = GraphAnswers(repo)
  /\ prs = OpenIntoDevelop
  /\ pin \in [includeDrafts : {FALSE},
               options : {DEFAULT_ASSERT_OPEN_PR_OPTIONS,
                          [DEFAULT_ASSERT_OPEN_PR_OPTIONS EXCEPT
                             !.forbiddenBranches = <<"release", "main">>]}]
  /\ pres = NoPrResult
  /\ cin = <<>> /\ cout = <<>>
  /\ hin = <<>> /\ hres = <<>>
  /\ VersionIdle
  /\ OrderIdle
  /\ FreshIdle
  /\ RunIdle

AssertOpenPRs ==
  /\ pres = NoPrResult
  /\ pres' = assertOpenPRs(pin.includeDrafts, pin.options)
  /\ UNCHANGED <<cin, cout, hin, hres, pin, exceptFork>>

GraphNext == AssertOpenPRs

SpecGraph == GraphInit /\ [][GraphNext]_vars

-----------------------------------------------------------------------------
(* assertOpenPRs on every answer the git commands can give for the heads   *)
(* of two pull requests, with drafts, failing commands and every option.   *)

\* what the commands print for one base branch and one head: the fork point
\* from the reflog, or from the plain merge base, or none, and the count
PairAnswers ==
  {[forkPoint |-> 1, mergeBase |-> 1, count |-> c] : c \in Counts}
  \cup {[forkPoint |-> NoCommit, mergeBase |-> 1, count |-> 1],
        [forkPoint |-> NoCommit, mergeBase |-> NoCommit, count |-> NaN]}

\* the second pull request: closest to develop, to main, to release, to none
SecondHeads ==
  {[b \in Branches |->
      IF b = near THEN [forkPoint |-> 1, mergeBase |-> 1, count |-> 0]
      ELSE [forkPoint |-> NoCommit, mergeBase |-> NoCommit, count |-> NaN]] :
     near \in Branches \cup {"none"}}

PullAnswers(fetchFails, headFails) ==
  {[fetchFails |-> fetchFails, headFails |-> headFails,
    forkPointOut |-> [k \in Branches \X {PrRef(n) : n \in PrNumbers} |->
                        IF k[2] = PrRef(1) THEN a[k[1]].forkPoint ELSE b[k[1]].forkPoint],
    mergeBaseOut |-> [k \in Branches \X {PrRef(n) : n \in PrNumbers} |->
                        IF k[2] = PrRef(1) THEN a[k[1]].mergeBase ELSE b[k[1]].mergeBase],
    countOut |-> [k \in Branches \X {PrRef(n) : n \in PrNumbers} |->
                    IF k[2] = PrRef(1) THEN a[k[1]].count ELSE b[k[1]].count],
    tip |-> [x \in Branches |-> 1]] :
     a \in [Branches -> PairAnswers], b \in SecondHeads}

\* the open pull requests the host lists for each base branch
PullLists ==
  {<<>>,
   <<[number |-> 1, draft |-> FALSE]>>,
   <<[number |-> 1, draft |-> TRUE]>>,
   <<[number |-> 1, draft |-> FALSE], [number |-> 2, draft |-> FALSE]>>,
   <<[number |-> 2, draft |-> TRUE], [number |-> 1, draft |-> FALSE]>>}

PullOptions ==
  {DEFAULT_ASSERT_OPEN_PR_OPTIONS,
   MainIntoReleaseOptions,
   [DEFAULT_ASSERT_OPEN_PR_OPTIONS EXCEPT !.forbiddenBranches = <<"release", "main", "release">>],
   [DEFAULT_ASSERT_OPEN_PR_OPTIONS EXCEPT !.forbiddenBranches = <<"develop", "main">>],
   [DEFAULT_ASSERT_OPEN_PR_OPTIONS EXCEPT !.forbiddenBranches = <<"develop">>]}

PullsInit ==
  /\ \E failure \in {"none", "fetch", "head", "list"} :
       /\ git \in PullAnswers(failure = "fetch", IF failure = "head" THEN {PrRef(2)} ELSE {})
       /\ \E list \in PullLists :
            prs = [ok |-> failure # "list", open |-> [b \in Branches |-> list]]
  /\ repo = <<>>
  /\ pin \in [includeDrafts : BOOLEAN, options : PullOptions]
  /\ pres = NoPrResult
  /\ cin = <<>> /\ cout = <<>>
  /\ hin = <<>> /\ hres = <<>>
  /\ VersionIdle
  /\ OrderIdle
  /\ FreshIdle
  /\ RunIdle

PullsNext == AssertOpenPRs

SpecPulls == PullsInit /\ [][PullsNext]_vars

-----------------------------------------------------------------------------
(* ensureFreshWorkflowRun                                                  *)

UNMERGED_PR_FLAG_ARTIFACT == "release-startup-unmerged-pr-flag"

UpperCaseLetters ==
  <<"A", "B", "C", "D", "E", "F", "G", "H", "I", "J", "K", "L", "M",
    "N", "O", "P", "Q", "R", "S", "T", "U", "V", "W", "X", "Y", "Z">>

LowerCaseLetters ==
  <<"a", "b", "c", "d", "e", "f", "g", "h", "i", "j", "k", "l", "m",
    "n", "o", "p", "q", "r", "s", "t", "u", "v", "w", "x", "y", "z">>

ToLowerCase(s) ==
  [i \in 1..Len(s) |->
     IF \E k \in 1..26 : UpperCaseLetters[k] = s[i]
     THEN LowerCaseLetters[CHOOSE k \in 1..26 : UpperCaseLetters[k] = s[i]]
     ELSE s[i]]

ToUpperCase(s) ==
  [i \in 1..Len(s) |->
     IF \E k \in 1..26 : LowerCaseLetters[k] = s[i]
     THEN UpperCaseLetters[CHOOSE k \in 1..26 : LowerCaseLetters[k] = s[i]]
     ELSE s[i]]

RECURSIVE TrimStart(_)
TrimStart(s) ==
  IF s # <<>> /\ s[1] = " " THEN TrimStart(SubSeq(s, 2, Len(s))) ELSE s

RECURSIVE TrimEnd(_)
TrimEnd(s) ==
  IF s # <<>> /\ s[Len(s)] = " " THEN TrimEnd(SubSeq(s, 1, Len(s) - 1)) ELSE s

Trim(s) == TrimEnd(TrimStart(s))

\* stage?.trim().toLowerCase()
NormalizedStage(stage) ==
  IF stage = Undefined THEN Undefined ELSE ToLowerCase(Trim(stage))

\* the stage label of the message: the normalized stage capitalised, or "Alpha"
StageLabel(normalizedStage) ==
  IF normalizedStage # Undefined /\ normalizedStage # <<>>
  THEN ToUpperCase(SubSeq(normalizedStage, 1, 1))
       \o SubSeq(normalizedStage, 2, Len(normalizedStage))
  ELSE <<"A", "l", "p", "h", "a">>

\* artifact?.name ?? ''
NameOf(artifact) == IF artifact.name = "undefined" THEN "" ELSE artifact.name

RunHasFlag(artifacts) ==
  \E i \in 1..Len(artifacts) : NameOf(artifacts[i]) = UNMERGED_PR_FLAG_ARTIFACT

PageHasFlag(repoArtifacts, runId) ==
  \E i \in 1..Len(repoArtifacts) :
    /\ NameOf(repoArtifacts[i]) = UNMERGED_PR_FLAG_ARTIFACT
    /\ repoArtifacts[i].run = runId

\* the mutation of RepoHasFlag that reads the first page only
RepoHasFlag_FirstPage(pages, i, runId) ==
  i <= Len(pages) /\ PageHasFlag(pages[i], runId)

\* the loop over the pages of the repository's artifacts, from page i on
RECURSIVE RepoHasFlag(_, _, _)
RepoHasFlag(pages, i, runId) ==
  IF i > Len(pages) THEN FALSE
  ELSE IF PageHasFlag(pages[i], runId) THEN TRUE
  ELSE RepoHasFlag(pages, i + 1, runId)

STAGE_OPEN_PR_CHECKS(stage) ==
  IF stage = S_alpha THEN <<DEFAULT_ASSERT_OPEN_PR_OPTIONS, MainIntoReleaseOptions>>
  ELSE IF stage = S_beta THEN <<MainIntoReleaseOptions>>
  ELSE <<>>

S_constructor == <<"c", "o", "n", "s", "t", "r", "u", "c", "t", "o", "r">>

\* the keys every object literal inherits: looked up in STAGE_OPEN_PR_CHECKS they
\* give a function or the prototype object, which are truthy and not iterable
InheritedKey(stage) ==
  stage \in {S_constructor, <<"_", "_", "p", "r", "o", "t", "o", "_", "_">>}

HasStageChecks(normalizedStage) ==
  normalizedStage # Undefined /\ normalizedStage # <<>>
    /\ (STAGE_OPEN_PR_CHECKS(normalizedStage) # <<>> \/ InheritedKey(normalizedStage))

FreshResult(outcome, message, effects, check) ==
  [outcome |-> outcome, message |-> message, effects |-> effects, check |-> check]

NoFreshResult == FreshResult("not_called", <<>>, <<>>, NoPrResult)

\* the artifact a successful upload adds to the run and to the repository
Uploaded(h, runId) ==
  [h EXCEPT !.runList = Append(@, [name |-> UNMERGED_PR_FLAG_ARTIFACT, run |-> runId]),
            !.repoPages = IF @ = <<>>
                          THEN <<<<[name |-> UNMERGED_PR_FLAG_ARTIFACT, run |-> runId]>>>>
                          ELSE [@ EXCEPT ![1] = <<[name |-> UNMERGED_PR_FLAG_ARTIFACT,
                                                   run |-> runId]>> \o @]]

\* uploadUnmergedPrFlagArtifact: the file is written, uploaded and removed; a
\* failing removal is logged, a failing write or upload is thrown
uploadUnmergedPrFlagArtifact(h, runId, upload) ==
  IF upload = "write_fails"
  THEN [host |-> h, effects |-> <<"writeFileSync">>, thrown |-> "file_error"]
  ELSE IF upload = "upload_fails"
  THEN [host |-> h, effects |-> <<"writeFileSync", "uploadArtifact", "rmRF">>,
        thrown |-> "artifact_error"]
  ELSE [host |-> Uploaded(h, runId),
        effects |-> IF upload = "cleanup_fails"
                    THEN <<"writeFileSync", "uploadArtifact", "rmRF", "warning">>
                    ELSE <<"writeFileSync", "uploadArtifact", "rmRF">>,
        thrown |-> "none"]

\* the error of the upload leaves the handler
handleBlockingHotfixPre_Rethrows(h, runId, upload) ==
  uploadUnmergedPrFlagArtifact(h, runId, upload)

\* handleBlockingHotfixPre: an error of the upload is caught and logged
handleBlockingHotfixPre(h, runId, upload) ==
  LET attempt == uploadUnmergedPrFlagArtifact(h, runId, upload) IN
  IF attempt.thrown # "none"
  THEN [attempt EXCEPT !.effects = Append(@, "warning"), !.thrown = "none"]
  ELSE attempt

\* the loop over the checks of the stage, from check i on
RECURSIVE enforceStageOpenPrChecks(_, _, _, _, _, _)
enforceStageOpenPrChecks(checks, i, h, runId, effects, upload) ==
  IF i > Len(checks)
  THEN [result |-> FreshResult("ok", <<>>, effects, PrResult("ok", <<>>, "")), host |-> h]
  ELSE LET checkOptions == checks[i]
           check == assertOpenPRs(FALSE, checkOptions)
           done == Append(effects, IF checkOptions.baseBranch = "develop"
                                   THEN "assertOpenPRs develop"
                                   ELSE "assertOpenPRs release")
       IN IF check.outcome = "BlockingHotfixPRError"
          THEN LET handled == handleBlockingHotfixPre(h, runId, upload) IN
               [result |-> FreshResult(IF handled.thrown # "none" THEN handled.thrown
                                       ELSE check.outcome,
                                       <<>>, done \o handled.effects, check),
                host |-> handled.host]
          ELSE IF check.outcome # "ok"
          THEN [result |-> FreshResult(check.outcome, <<>>, done, check), host |-> h]
          ELSE enforceStageOpenPrChecks(checks, i + 1, h, runId, done, upload)

ensureFreshWorkflowRun(h, runId, stage, gitRemoteUrl, env) ==
  LET normalizedStage == NormalizedStage(stage)
      artifacts == h.runList
      hasFlag == RunHasFlag(artifacts) \/ RepoHasFlag(h.repoPages, 1, runId)
      listed == IF RunHasFlag(artifacts) THEN <<"listWorkflowRunArtifacts">>
                ELSE <<"listWorkflowRunArtifacts", "listArtifactsForRepo">>
  IN
  IF hasFlag
  THEN [result |-> FreshResult("rerun", StageLabel(normalizedStage), listed, NoPrResult),
        host |-> h]
  ELSE IF ~HasStageChecks(normalizedStage)
  THEN [result |-> FreshResult("ok", <<>>, listed, NoPrResult), host |-> h]
  ELSE \* ensureRepositoryForStageChecks
       IF ~h.checkout /\ ~gitRemoteUrl
       THEN [result |-> FreshResult("no_checkout", <<>>, listed, NoPrResult), host |-> h]
       ELSE IF ~h.checkout /\ env.bootstrap # "ok"
       THEN [result |-> FreshResult("git_error", <<>>,
                                    Append(listed, "prepareRepository"), NoPrResult),
             host |-> [h EXCEPT !.checkout = (env.bootstrap = "fails_after_clone")]]
       ELSE IF InheritedKey(normalizedStage)
       THEN \* the for-of over a value that is not iterable
            [result |-> FreshResult("TypeError", <<>>,
                                    IF h.checkout THEN listed
                                    ELSE Append(listed, "prepareRepository"), NoPrResult),
             host |-> [h EXCEPT !.checkout = TRUE]]
       ELSE enforceStageOpenPrChecks(
              STAGE_OPEN_PR_CHECKS(normalizedStage), 1,
              [h EXCEPT !.checkout = TRUE], runId,
              IF h.checkout THEN listed ELSE Append(listed, "prepareRepository"),
              env.upload)

-----------------------------------------------------------------------------
(* ensureFreshWorkflowRun called again and again for one workflow run.     *)

RunIds == {1, 2}
NoRun == 0

S_production == <<"p", "r", "o", "d", "u", "c", "t", "i", "o", "n">>

\* the stage argument: absent, empty, padded, in capitals, without checks, and
\* a word that is no key of STAGE_OPEN_PR_CHECKS but of every object
StageArguments ==
  {Undefined, <<>>, S_alpha, <<" ", "A", "l", "p", "h", "a", " ">>,
   <<"B", "E", "T", "A">>, S_production, S_constructor}

FlagOf(runId) == [name |-> UNMERGED_PR_FLAG_ARTIFACT, run |-> runId]
ResultArtifact == [name |-> "release-startup-outputs", run |-> 1]

\* the artifacts listed for the run of the calls, run 1
RunLists == {<<>>, <<ResultArtifact>>, <<ResultArtifact, FlagOf(1)>>}

\* the pages of the artifacts of the repository
RepoPageLists ==
  {<<>>,
   <<<<ResultArtifact>>>>,
   <<<<FlagOf(2), ResultArtifact>>>>,
   <<<<[name |-> UNMERGED_PR_FLAG_ARTIFACT, run |-> NoRun]>>, <<[name |-> "undefined", run |-> 1]>>>>,
   <<<<FlagOf(2)>>, <<ResultArtifact, FlagOf(1)>>>>}

\* fork distances of a pull request head that is closest to the branch
ClosestTo(branch) == [b \in Branches |-> IF b = branch THEN 0 ELSE 1]

\* the open pull requests: number 1 into develop, number 2 into release
OpenLists ==
  {[develop |-> d, main |-> <<>>, release |-> r] :
     d \in {<<>>, <<[number |-> 1, draft |-> FALSE]>>, <<[number |-> 1, draft |-> TRUE]>>},
     r \in {<<>>, <<[number |-> 2, draft |-> FALSE]>>}}

FreshAnswers(open, closest) ==
  [fetchFails |-> FALSE, headFails |-> {},
   forkPointOut |-> [k \in Branches \X {PrRef(n) : n \in PrNumbers} |-> 1],
   mergeBaseOut |-> [k \in Branches \X {PrRef(n) : n \in PrNumbers} |-> 1],
   countOut |-> [k \in Branches \X {PrRef(n) : n \in PrNumbers} |->
                   ClosestTo(closest[k[2][2]])[k[1]]],
   tip |-> [b \in Branches |-> 1]]

\* the branch a pull request that is not listed is closest to is not read
Listed(open, closest) ==
  /\ (open["develop"] = <<>>) => (closest[1] = "develop")
  /\ (open["release"] = <<>>) => (closest[2] = "develop")

FreshInit ==
  /\ \E open \in OpenLists, closest \in [PrNumbers -> Branches],
        failure \in {"none", "fetch", "list", "head"} :
       /\ Listed(open, closest)
       /\ (failure \in {"fetch", "list"}) =>
            (open = [develop |-> <<>>, main |-> <<>>, release |-> <<>>])
       /\ (failure = "head") => (open["release"] # <<>>)
       /\ prs = [ok |-> failure # "list", open |-> open]
       /\ git = [FreshAnswers(open, closest) EXCEPT
                   !.fetchFails = (failure = "fetch"),
                   !.headFails = IF failure = "head" THEN {PrRef(2)} ELSE {}]
  /\ repo = <<>>
  /\ host \in [runList : RunLists, repoPages : RepoPageLists, checkout : BOOLEAN]
  /\ fin \in [runId : {1}, stage : StageArguments, gitRemoteUrl : BOOLEAN]
  /\ fres = NoFreshResult
  /\ fprev = NoFreshResult
  /\ fcalls = 0
  /\ VersionIdle
  /\ OrderIdle
  /\ ForkIdle
  /\ RunIdle

EnsureFreshWorkflowRun ==
  /\ fcalls < MaxRuns
  /\ \E env \in [bootstrap : {"ok", "fails_before_clone", "fails_after_clone"},
                  upload : {"ok", "write_fails", "upload_fails", "cleanup_fails"}] :
       LET call == ensureFreshWorkflowRun(host, fin.runId, fin.stage, fin.gitRemoteUrl, env) IN
       /\ fres' = call.result
       /\ host' = call.host
  /\ fprev' = fres
  /\ fcalls' = fcalls + 1
  /\ UNCHANGED <<fin, git, repo, prs, exceptFresh>>

FreshNext == EnsureFreshWorkflowRun

SpecFresh == FreshInit /\ [][FreshNext]_vars

-----------------------------------------------------------------------------
(* The main step (run) and the post step of the action.                    *)

S_main == <<"m", "a", "i", "n">>
S_release == <<"r", "e", "l", "e", "a", "s", "e">>
S_slash == <<"/">>

\* the value of an output, state entry or local that was never assigned
NotSet == <<"not set">>

\* context.ref.split('/').pop()
StarterBranch(ref) == PopValue(Split(ref, S_slash))

TargetOf(stage) ==
  IF stage = S_alpha THEN S_develop ELSE IF stage = S_beta THEN S_release ELSE S_main

SourceOf(stage) ==
  IF stage = S_alpha \/ stage = S_beta THEN S_develop ELSE S_release

\* the mutation of ValidationError without the rule about hotfixes
ValidationError_HotfixAnywhere(i) ==
  IF StarterBranch(i.ref) \notin {S_main, S_release, S_develop} THEN "starter_branch"
  ELSE IF ~i.token \/ i.stage = <<>> THEN "input_required"
  ELSE IF i.stage \notin {S_production, S_beta, S_alpha} THEN "invalid_stage"
  ELSE IF i.reference = TargetOf(i.stage) THEN "reference_is_target"
  ELSE IF i.stage = S_beta /\ i.reference # <<>> /\ ~TestAlphaBase(i.reference)
       THEN "reference_not_alpha"
  ELSE "none"

\* the error the statements before the first request throw, "none" if none:
\* the starter branch, the required inputs, the stage, the hotfix flag, the
\* reference
ValidationError(i) ==
  IF StarterBranch(i.ref) \notin {S_main, S_release, S_develop} THEN "starter_branch"
  ELSE IF ~i.token \/ i.stage = <<>> THEN "input_required"
  ELSE IF i.stage \notin {S_production, S_beta, S_alpha} THEN "invalid_stage"
  ELSE IF i.hotfix /\ i.stage # S_production THEN "hotfix_not_production"
  ELSE IF i.reference = TargetOf(i.stage) THEN "reference_is_target"
  ELSE IF i.stage = S_beta /\ i.reference # <<>> /\ ~TestAlphaBase(i.reference)
       THEN "reference_not_alpha"
  ELSE "none"

Detached(i) == ~i.hotfix /\ i.reference # <<>> /\ i.reference # SourceOf(i.stage)

\* tag.startsWith('v20') && /^v20\d{2}\.\d{1,3}(?:(?:-alpha|-beta)?.\d{1,4})?$/.test(tag):
\* the dot before the last number stands for any character, and the revision
\* may give back digits to it
TestTag(s) ==
  /\ StartsWithAt(s, 1, <<"v", "2", "0">>)
  /\ Len(s) >= 7
  /\ IsDigit(s[4]) /\ IsDigit(s[5])
  /\ s[6] = "."
  /\ \E n \in 1..3 :
       /\ 6 + n <= Len(s)
       /\ \A k \in 7..(6 + n) : IsDigit(s[k])
       /\ LET p == 7 + n IN
          \/ p = Len(s) + 1
          \/ \E q \in {p} \cup (IF StartsWithAt(s, p, S_dashAlpha) THEN {p + 6} ELSE {})
                         \cup (IF StartsWithAt(s, p, S_dashBeta) THEN {p + 5} ELSE {}) :
               /\ q < Len(s)
               /\ Len(s) - q <= 4
               /\ \A k \in (q + 1)..Len(s) : IsDigit(s[k])

BranchOfTag(tag) ==
  IF Includes(tag, S_dashAlpha \o S_dot) THEN S_develop
  ELSE IF Includes(tag, S_dashBeta \o S_dot) THEN S_release
  ELSE S_main

\* insertion of x into a list sorted with (a, b) => compareVersions(b.tag, a.tag),
\* after the elements that do not rank after it
RECURSIVE InsertSorted(_, _)
InsertSorted(sorted, x) ==
  IF sorted = <<>> THEN <<x>>
  ELSE IF compareVersions(x.tag, sorted[Len(sorted)].tag) <= 0
       THEN Append(sorted, x)
       ELSE Append(InsertSorted(SubSeq(sorted, 1, Len(sorted) - 1), x), sorted[Len(sorted)])

\* Array.prototype.sort with that comparator (a stable sort)
RECURSIVE SortTags(_)
SortTags(list) ==
  IF list = <<>> THEN <<>>
  ELSE InsertSorted(SortTags(SubSeq(list, 1, Len(list) - 1)), list[Len(list)])

AcceptedTags(names) ==
  LET Accepted(tag) == TestTag(tag)
      kept == SelectSeq(names, Accepted)
  IN [i \in 1..Len(kept) |-> [tag |-> kept[i], branch |-> BranchOfTag(kept[i])]]

\* the comparator throws when simplifyVersion cannot read a tag it is given
SortThrows(list) ==
  Len(list) >= 2 /\ \E i \in 1..Len(list) : simplifyVersion(list[i].tag).thrown

\* the first tag of the branch in the sorted list, as shift() would give
LastTagOf_First(tags, branch) ==
  LET OfBranch(release) == release.branch = branch
      kept == SelectSeq(tags, OfBranch)
  IN IF kept = <<>> THEN Undefined ELSE kept[1].tag

\* tags.filter(release => release.branch === branch).map(release => release.tag).pop()
LastTagOf(tags, branch) ==
  LET OfBranch(release) == release.branch = branch
      kept == SelectSeq(tags, OfBranch)
  IN IF kept = <<>> THEN Undefined ELSE kept[Len(kept)].tag

\* version.replace(/^(v20\d+\.\d+)(-(?:alpha|beta)\.\d+|)$/img, "$1.0$2")
InlineExtended(version) ==
  IF ~StartsWithAt(version, 1, <<"v", "2", "0">>) THEN version
  ELSE
    LET nYear == DigitRun(version, 4)
        pRev == 4 + nYear + 1
        nRev == DigitRun(version, pRev)
        pSuffix == pRev + nRev
        suffix == SubSeq(version, pSuffix, Len(version))
        pIter == IF StartsWithAt(version, pSuffix, S_dashAlpha \o S_dot) THEN pSuffix + 7
                 ELSE IF StartsWithAt(version, pSuffix, S_dashBeta \o S_dot) THEN pSuffix + 6
                 ELSE 0
    IN IF /\ nYear >= 1
          /\ StartsWithAt(version, 4 + nYear, S_dot)
          /\ nRev >= 1
          /\ \/ suffix = <<>>
             \/ /\ pIter # 0
                /\ DigitRun(version, pIter) >= 1
                /\ pIter + DigitRun(version, pIter) - 1 = Len(version)
       THEN SubSeq(version, 1, pSuffix - 1) \o <<".", "0">> \o suffix
       ELSE version

S_rebase == <<"r", "e", "b", "a", "s", "e", "-">>
S_rsa == <<"-", "r", "s", "a">>

\* `rebase-${sha}-rsa`
TemporaryBranch(sha) == S_rebase \o sha \o S_rsa

NoOutputs ==
  [version |-> NotSet, plain_version |-> NotSet, extended_version |-> NotSet,
   previous_version |-> NotSet, reference |-> NotSet]

InitialOuts ==
  [outputs |-> NoOutputs, state |-> [delete |-> "unset", branch |-> NotSet],
   exported |-> FALSE, artifact |-> FALSE, summary |-> FALSE, failed |-> "none",
   postFailed |-> FALSE]

InitialLocals ==
  [tags |-> <<>>, previousVersion |-> Undefined, version |-> Undefined,
   sha |-> Undefined, head |-> Undefined, zxScriptChanges |-> FALSE,
   mergeable |-> "null", manualMerge |-> FALSE, gitReference |-> Undefined, polls |-> 0]

Api(call) == [io EXCEPT !.api = Append(@, call)]
Git(commands) == [io EXCEPT !.git = @ \o commands]

\* an error leaves the try block: setFailed with its message, the step ends
Fail(error, o) ==
  /\ pc' = "ended"
  /\ outs' = [o EXCEPT !.failed = error]

\* lines 31-106: the statements before the first request
Validate ==
  /\ pc = "start"
  /\ LET error == ValidationError(inp) IN
     IF error # "none" THEN Fail(error, outs)
     ELSE /\ pc' = IF Detached(inp) THEN "compareDetached" ELSE "listBranches"
          /\ outs' = outs
  /\ UNCHANGED <<inp, rs, world, io, exceptRun>>

Statuses == {"ahead", "behind", "identical", "diverged"}

\* line 114: the reference compared with the source branch
CompareDetached ==
  /\ pc = "compareDetached"
  /\ io' = Api("compareCommits")
  /\ \E answer \in Statuses \cup {"error"} :
       IF answer = "error" THEN Fail("request_failed", outs)
       ELSE IF answer \notin {"behind", "identical"} THEN Fail("reference_not_on_source", outs)
       ELSE pc' = "listBranches" /\ outs' = outs
  /\ UNCHANGED <<inp, rs, world, exceptRun>>

\* lines 119-127: the source branch must exist; a hotfix needs a reference
ListBranches ==
  /\ pc = "listBranches"
  /\ io' = Api("listBranches")
  /\ \E answer \in {"ok", "error"} :
       IF answer = "error" THEN Fail("request_failed", outs)
       ELSE IF SourceOf(inp.stage) \notin world.branches THEN Fail("source_not_found", outs)
       ELSE IF inp.hotfix /\ inp.reference = <<>> THEN Fail("hotfix_reference_empty", outs)
       ELSE /\ pc' = IF inp.hotfix THEN "listBranchesHotfix" ELSE "listTags"
            /\ outs' = outs
  /\ UNCHANGED <<inp, rs, world, exceptRun>>

\* line 124: the hotfix branch must exist
ListBranchesHotfix ==
  /\ pc = "listBranchesHotfix"
  /\ io' = Api("listBranches")
  /\ \E answer \in {"ok", "error"} :
       IF answer = "error" THEN Fail("request_failed", outs)
       ELSE IF inp.reference \notin world.branches THEN Fail("hotfix_branch_not_found", outs)
       ELSE pc' = "listTags" /\ outs' = outs
  /\ UNCHANGED <<inp, rs, world, exceptRun>>

\* lines 241-246: the tag the temporary branch is created at
ReferenceTag(tags) ==
  IF Detached(inp) THEN inp.reference ELSE LastTagOf(tags, SourceOf(inp.stage))

\* where the run goes once the issues are settled
AfterIssues(tags, o) ==
  IF ReferenceTag(tags) = Undefined THEN Fail("no_suitable_version", o)
  ELSE pc' = "getRef" /\ outs' = o

\* lines 143-159: the versions read from the sorted tags and the one computed
VersionsOf(tags) ==
  LET previousVersion == LastTagOf(tags, TargetOf(inp.stage))
      lastAlphaVersion == IF inp.stage = S_alpha THEN previousVersion
                          ELSE LastTagOf(tags, S_develop)
      lastProductionVersion == IF inp.stage = S_production THEN previousVersion
                               ELSE LastTagOf(tags, S_main)
  IN [previousVersion |-> previousVersion,
      computed |-> versioning(IF inp.stage = S_alpha THEN "alpha"
                              ELSE IF inp.stage = S_beta THEN "beta" ELSE "production",
                              inp.reference, inp.hotfix,
                              IF inp.stage = S_beta THEN lastAlphaVersion ELSE previousVersion,
                              lastProductionVersion, Undefined, world.year)]

\* lines 171-179: the outputs of the versions and the saved state
VersionOutputs(version, previousVersion) ==
  [outs EXCEPT
     !.outputs = [@ EXCEPT !.version = version,
                           !.plain_version = SubSeq(version, 2, Len(version)),
                           !.extended_version = IF inp.hotfix THEN version
                                                ELSE InlineExtended(version),
                           !.previous_version = previousVersion],
     !.state = [@ EXCEPT !.delete = "false"]]

\* lines 181-246: where the run goes with its version, up to the next request
AfterVersion(tags, version, previousVersion, set, locals) ==
  IF inp.stage = S_alpha
  THEN IF previousVersion # Undefined
       THEN pc' = "compareAlpha" /\ outs' = set /\ rs' = locals
       ELSE /\ pc' = "finish"
            /\ outs' = [set EXCEPT !.outputs = [@ EXCEPT !.reference =
                           IF Detached(inp) THEN inp.reference ELSE S_develop]]
            /\ rs' = [locals EXCEPT !.gitReference =
                        IF Detached(inp) THEN inp.reference ELSE S_develop]
  ELSE IF inp.hotfix
  THEN pc' = "createPull" /\ outs' = set /\ rs' = [locals EXCEPT !.head = inp.reference]
  ELSE pc' = (IF inp.checkIssues THEN "issues" ELSE "reference") /\ outs' = set /\ rs' = locals

\* the check left out: no version is refused
AlreadyExists_Never(tags, version) ==
  FALSE

\* line 163: tags.some(release => release.tag === version)
AlreadyExists(tags, version) ==
  \E i \in 1..Len(tags) : tags[i].tag = version

\* lines 129-179 and the statements up to the next request: the tags, the
\* versions, the outputs
ListTags ==
  /\ pc = "listTags"
  /\ io' = Api("listTags")
  /\ \E answer \in {"ok", "error"} :
       IF answer = "error" THEN Fail("request_failed", outs) /\ rs' = rs
       ELSE
         \E accepted \in {AcceptedTags(world.tags)} :
           IF SortThrows(accepted) THEN Fail("version_not_readable", outs) /\ rs' = rs
           ELSE
             \E tags \in {SortTags(accepted)} :
               \E versions \in {VersionsOf(tags)} :
                 IF ~versions.computed.ok
                 THEN Fail(versions.computed.error, outs) /\ rs' = rs
                 ELSE
                   \E version \in {versions.computed.value} :
                     \E locals \in {[rs EXCEPT !.tags = tags,
                                               !.previousVersion = versions.previousVersion,
                                               !.version = version]} :
                       IF AlreadyExists(tags, version)
                       THEN Fail("already_exists", outs) /\ rs' = locals
                       ELSE \E set \in {VersionOutputs(version, versions.previousVersion)} :
                              AfterVersion(tags, version, versions.previousVersion, set, locals)
  /\ UNCHANGED <<inp, world, exceptRun>>

\* lines 185-213: the reference (or develop) must be ahead of the previous release
CompareAlpha ==
  /\ pc = "compareAlpha"
  /\ io' = Api("compareCommits")
  /\ \E answer \in Statuses \cup {"error"} :
       IF answer = "error" THEN Fail("request_failed", outs) /\ rs' = rs
       ELSE IF answer \notin {"ahead", "diverged"}
       THEN Fail(IF inp.reference # <<>> /\ inp.reference # S_develop
                 THEN "reference_not_ahead" ELSE "no_new_changes", outs) /\ rs' = rs
       ELSE LET gitReference == IF Detached(inp) THEN inp.reference ELSE S_develop IN
            /\ pc' = "finish"
            /\ outs' = [outs EXCEPT !.outputs = [@ EXCEPT !.reference = gitReference]]
            /\ rs' = [rs EXCEPT !.gitReference = gitReference]
  /\ UNCHANGED <<inp, world, exceptRun>>

\* lines 223-246: the marked issues must all be approved
Issues ==
  /\ pc = "issues"
  /\ io' = Api("getMarkedIssues")
  /\ \E answer \in {"approved", "unapproved", "error"} :
       IF answer = "error" THEN Fail("request_failed", outs)
       ELSE IF answer = "unapproved"
       THEN Fail("unapproved_issues", [outs EXCEPT !.summary = TRUE])
       ELSE AfterIssues(rs.tags, outs)
  /\ UNCHANGED <<inp, rs, world, exceptRun>>

\* lines 241-246 when the issues are not checked
Reference ==
  /\ pc = "reference"
  /\ AfterIssues(rs.tags, outs)
  /\ UNCHANGED <<inp, rs, world, io, exceptRun>>

\* the commits the host names
Shas == {<<"c", "1">>, <<"c", "2">>}

\* line 250: the tag's reference; it points at the commit or at a tag object
GetRef ==
  /\ pc = "getRef"
  /\ io' = Api("getRef")
  /\ \E answer \in {"commit", "tag", "error"}, sha \in Shas :
       IF answer = "error" THEN Fail("request_failed", outs) /\ rs' = rs
       ELSE /\ pc' = IF answer = "commit" THEN "createRef" ELSE "getTag"
            /\ outs' = outs
            /\ rs' = [rs EXCEPT !.sha = IF answer = "commit" THEN sha ELSE Undefined]
  /\ UNCHANGED <<inp, world, exceptRun>>

\* line 252: the commit of an annotated tag
GetTag ==
  /\ pc = "getTag"
  /\ io' = Api("getTag")
  /\ \E answer \in {"ok", "error"}, sha \in Shas :
       IF answer = "error" THEN Fail("request_failed", outs) /\ rs' = rs
       ELSE pc' = "createRef" /\ outs' = outs /\ rs' = [rs EXCEPT !.sha = sha]
  /\ UNCHANGED <<inp, world, exceptRun>>

\* lines 256-264: the temporary branch, remembered for the post step
CreateRef ==
  /\ pc = "createRef"
  /\ io' = Api("createRef")
  /\ \E answer \in {"ok", "error"} :
       IF answer = "error" \/ TemporaryBranch(rs.sha) \in world.branches
       THEN Fail("request_failed", outs) /\ world' = world
       ELSE /\ pc' = "script"
            /\ outs' = [outs EXCEPT !.state = [delete |-> "true",
                                               branch |-> TemporaryBranch(rs.sha)]]
            /\ world' = [world EXCEPT !.branches = @ \cup {TemporaryBranch(rs.sha)}]
  /\ UNCHANGED <<inp, rs, exceptRun>>

\* lines 266-333: the clone, the stage's script, its changes pushed
Script ==
  /\ pc = "script"
  /\ \E answer \in {"no_script", "unchanged", "changed", "error"} :
       /\ io' = Git(IF answer = "error" THEN <<"clone">>
                    ELSE IF answer = "no_script" THEN <<"clone", "checkout", "pull">>
                    ELSE IF answer = "unchanged"
                    THEN <<"clone", "checkout", "pull", "zx", "status">>
                    ELSE <<"clone", "checkout", "pull", "zx", "status", "config", "config",
                           "add", "commit", "push">>)
       /\ IF answer = "error" THEN Fail("command_failed", outs) /\ rs' = rs
          ELSE /\ pc' = "compareHead"
               /\ outs' = outs
               /\ rs' = [rs EXCEPT !.zxScriptChanges = (answer = "changed"),
                                   !.head = TemporaryBranch(rs.sha)]
  /\ UNCHANGED <<inp, world, exceptRun>>

\* lines 335-350: the temporary branch must be ahead of the target
CompareHead ==
  /\ pc = "compareHead"
  /\ io' = Api("compareCommits")
  /\ \E answer \in Statuses \cup {"error"} :
       IF answer = "error" THEN Fail("request_failed", outs)
       ELSE IF answer \notin {"ahead", "diverged"} THEN Fail("not_ahead_of_target", outs)
       ELSE pc' = "createPull" /\ outs' = outs
  /\ UNCHANGED <<inp, rs, world, exceptRun>>

\* lines 369-398: where the run goes once the mergeable state is known
AfterMergeable(mergeable) ==
  IF mergeable = "null" THEN "wait"
  ELSE IF mergeable = "true" THEN "merge"
  ELSE IF rs.zxScriptChanges THEN "manualMerge"
  ELSE "closeUnmergeable"

\* line 358: the pull request from the head into the target
CreatePull ==
  /\ pc = "createPull"
  /\ io' = Api("pulls.create")
  /\ \E answer \in {"null", "true", "false", "error"} :
       IF answer = "error" THEN Fail("request_failed", outs) /\ rs' = rs /\ world' = world
       ELSE /\ pc' = AfterMergeable(answer)
            /\ outs' = outs
            /\ rs' = [rs EXCEPT !.mergeable = answer]
            /\ world' = [world EXCEPT !.pull = "open"]
  /\ UNCHANGED <<inp, exceptRun>>

\* line 362: the wait of five seconds before the pull request is read again
Wait ==
  /\ pc = "wait"
  /\ pc' = "poll"
  /\ UNCHANGED <<inp, rs, world, outs, io, exceptRun>>

\* the loop with a maximum number of attempts, after which the run fails
Poll_GivesUp ==
  /\ pc = "poll"
  /\ io' = io
  /\ IF rs.polls >= MaxPolls THEN Fail("attempts_exhausted", outs) /\ rs' = rs
     ELSE \E answer \in {"null", "true", "false", "error"} :
            IF answer = "error" THEN Fail("request_failed", outs) /\ rs' = rs
            ELSE /\ pc' = AfterMergeable(answer)
                 /\ outs' = outs
                 /\ rs' = [rs EXCEPT !.mergeable = answer, !.polls = @ + 1]
  /\ UNCHANGED <<inp, world, exceptRun>>

\* lines 360-365: the pull request read again while its mergeable state is
\* null. The reads are counted, and logged, up to MaxPolls.
Poll ==
  /\ pc = "poll"
  /\ io' = IF rs.polls < MaxPolls THEN Api("pulls.get") ELSE io
  /\ \E answer \in {"null", "true", "false", "error"} :
       IF answer = "error" THEN Fail("request_failed", outs) /\ rs' = rs
       ELSE /\ pc' = AfterMergeable(answer)
            /\ outs' = outs
            /\ rs' = [rs EXCEPT !.mergeable = answer,
                                !.polls = IF @ < MaxPolls THEN @ + 1 ELSE @]
  /\ UNCHANGED <<inp, world, exceptRun>>

\* lines 371-376: the pull request closed as failed
CloseUnmergeable ==
  /\ pc = "closeUnmergeable"
  /\ io' = Api("pulls.update")
  /\ \E answer \in {"ok", "error"} :
       IF answer = "error" THEN Fail("request_failed", outs) /\ world' = world
       ELSE Fail("not_mergeable", outs) /\ world' = [world EXCEPT !.pull = "closed"]
  /\ UNCHANGED <<inp, rs, exceptRun>>

\* lines 377-398: the merge made with git after the script's changes
ManualMerge ==
  /\ pc = "manualMerge"
  /\ \E answer \in {"ok", "error"} :
       /\ io' = Git(IF answer = "error" THEN <<"checkout">>
                    ELSE <<"checkout", "pull", "merge", "push">>)
       /\ IF answer = "error" THEN Fail("command_failed", outs) /\ rs' = rs
          ELSE pc' = "merge" /\ outs' = outs /\ rs' = [rs EXCEPT !.manualMerge = TRUE]
  /\ UNCHANGED <<inp, world, exceptRun>>

\* the mutation of Merge that sets the reference output before looking at merged
Merge_ReferenceUnchecked ==
  /\ pc = "merge"
  /\ io' = Api(IF rs.manualMerge THEN "pulls.get" ELSE "pulls.merge")
  /\ \E answer \in {"merged", "not_merged", "error"} :
       IF answer = "error" THEN Fail("request_failed", outs) /\ rs' = rs /\ world' = world
       ELSE IF answer = "not_merged"
       THEN /\ pc' = "closeFailedMerge"
            /\ outs' = [outs EXCEPT !.outputs = [@ EXCEPT !.reference = <<"c", "3">>]]
            /\ rs' = rs /\ world' = world
       ELSE /\ pc' = "finish"
            /\ outs' = [outs EXCEPT !.outputs = [@ EXCEPT !.reference = <<"c", "3">>]]
            /\ rs' = [rs EXCEPT !.gitReference = <<"c", "3">>]
            /\ world' = [world EXCEPT !.pull = "merged"]
  /\ UNCHANGED <<inp, exceptRun>>

\* lines 400-423: the merge, or its result read after a manual merge
Merge ==
  /\ pc = "merge"
  /\ io' = Api(IF rs.manualMerge THEN "pulls.get" ELSE "pulls.merge")
  /\ \E answer \in {"merged", "not_merged", "error"} :
       IF answer = "error" THEN Fail("request_failed", outs) /\ rs' = rs /\ world' = world
       ELSE IF answer = "not_merged"
       THEN pc' = "closeFailedMerge" /\ outs' = outs /\ rs' = rs /\ world' = world
       ELSE /\ pc' = "finish"
            /\ outs' = [outs EXCEPT !.outputs = [@ EXCEPT !.reference = <<"c", "3">>]]
            /\ rs' = [rs EXCEPT !.gitReference = <<"c", "3">>]
            /\ world' = [world EXCEPT !.pull = "merged"]
  /\ UNCHANGED <<inp, exceptRun>>

\* lines 425-430: the pull request closed as failed
CloseFailedMerge ==
  /\ pc = "closeFailedMerge"
  /\ io' = Api("pulls.update")
  /\ \E answer \in {"ok", "error"} :
       IF answer = "error" THEN Fail("request_failed", outs) /\ world' = world
       ELSE Fail("merge_failed", outs) /\ world' = [world EXCEPT !.pull = "closed"]
  /\ UNCHANGED <<inp, rs, exceptRun>>

\* lines 433-448: the exports
Finish ==
  /\ pc = "finish"
  /\ pc' = IF inp.artifact THEN "artifact" ELSE "ended"
  /\ outs' = [outs EXCEPT !.exported = inp.exports]
  /\ UNCHANGED <<inp, rs, world, io, exceptRun>>

\* lines 450-501: the result artifact
Artifact ==
  /\ pc = "artifact"
  /\ \E answer \in {"ok", "error"} :
       IF answer = "error" THEN Fail("artifact_upload", outs)
       ELSE pc' = "ended" /\ outs' = [outs EXCEPT !.artifact = TRUE]
  /\ UNCHANGED <<inp, rs, world, io, exceptRun>>

\* a post step that cleans up only after a main step that succeeded
Post_AfterSuccess ==
  /\ pc = "ended"
  /\ pc' = "posted"
  /\ IF outs.state.delete = "true" /\ outs.failed = "none"
     THEN /\ io' = Api("deleteRef")
          /\ \E answer \in {"ok", "error"} :
               IF answer = "error"
               THEN outs' = [outs EXCEPT !.postFailed = TRUE] /\ world' = world
               ELSE /\ outs' = outs
                    /\ world' = [world EXCEPT !.branches = @ \ {outs.state.branch}]
     ELSE UNCHANGED <<io, outs, world>>
  /\ UNCHANGED <<inp, rs, exceptRun>>

\* the post step: the temporary branch deleted when the main step saved 'delete' as true
Post ==
  /\ pc = "ended"
  /\ pc' = "posted"
  /\ IF outs.state.delete = "true"
     THEN /\ io' = Api("deleteRef")
          /\ \E answer \in {"ok", "error"} :
               IF answer = "error"
               THEN outs' = [outs EXCEPT !.postFailed = TRUE] /\ world' = world
               ELSE /\ outs' = outs
                    /\ world' = [world EXCEPT !.branches = @ \ {outs.state.branch}]
     ELSE UNCHANGED <<io, outs, world>>
  /\ UNCHANGED <<inp, rs, exceptRun>>

-----------------------------------------------------------------------------
(* One run of the action: the main step, then the post step.               *)

S_hotfix == <<"h", "o", "t", "f", "i", "x">>

\* refs/heads/<branch>
EventRef(branch) == Join(<<<<"r", "e", "f", "s">>, <<"h", "e", "a", "d", "s">>, branch>>, S_slash)

EventRefs == {EventRef(S_develop), EventRef(S_main), EventRef(<<"t", "o", "p", "i", "c">>)}

StageInputs == {<<>>, S_alpha, S_beta, S_production, <<"g", "a", "m", "m", "a">>}

References == {<<>>, S_develop, S_release, S_main, SomeAlpha, S_hotfix}

RunInputs ==
  \* every event, token, stage, reference and hotfix flag, the rest at its default
  [ref : EventRefs, token : BOOLEAN, stage : StageInputs, reference : References,
   hotfix : BOOLEAN, exports : {TRUE}, artifact : {TRUE}, checkIssues : {TRUE}]
  \cup
  \* every stage, reference and flag of a run started from develop
  [ref : {EventRef(S_develop)}, token : {TRUE}, stage : {S_alpha, S_beta, S_production},
   reference : References, hotfix : BOOLEAN, exports : BOOLEAN, artifact : BOOLEAN,
   checkIssues : BOOLEAN]

\* the tags of the repository as the host lists them
TagLists ==
  {<<>>,
   <<SomeAlpha>>,
   <<MkProd(2025, 1, Absent), MkPre(2025, 2, Absent, S_beta, 1, Absent), MkAlpha(2025, 2, 1)>>,
   <<MkAlpha(2025, 1, 2), <<"l", "a", "t", "e", "s", "t">>, SomeAlpha, SomeProd>>,
   \* two alpha releases, the second one released as beta
   <<MkAlpha(2025, 1, 2), MkPre(2025, 1, Absent, S_beta, 2, Absent), SomeAlpha>>,
   \* a release after many alpha releases
   <<SomeProd, MkAlpha(2025, 1, 9000), MkAlpha(2025, 1, 9)>>}

Worlds ==
  [branches : {{S_develop, S_release, S_main, S_hotfix}, {S_main}},
   tags : TagLists, year : YearStrs, pull : {"none"}]

RunInit ==
  /\ inp \in RunInputs
  /\ pc = "start"
  /\ rs = InitialLocals
  /\ world \in Worlds
  /\ outs = InitialOuts
  /\ io = [api |-> <<>>, git |-> <<>>]
  /\ VersionIdle
  /\ OrderIdle
  /\ GitIdle
  /\ ForkIdle
  /\ FreshIdle

RunNext ==
  \/ Validate
  \/ CompareDetached
  \/ ListBranches
  \/ ListBranchesHotfix
  \/ ListTags
  \/ CompareAlpha
  \/ Issues
  \/ Reference
  \/ GetRef
  \/ GetTag
  \/ CreateRef
  \/ Script
  \/ CompareHead
  \/ CreatePull
  \/ Wait
  \/ Poll
  \/ CloseUnmergeable
  \/ ManualMerge
  \/ Merge
  \/ CloseFailedMerge
  \/ Finish
  \/ Artifact
  \/ Post

SpecRun == RunInit /\ [][RunNext]_vars

\* the pull request read with an answer that ends the loop
PollSettled == Poll /\ pc' # "wait"

\* the steps after the tags were read
AfterTags ==
  \/ CompareAlpha \/ Issues \/ Reference \/ GetRef \/ GetTag \/ CreateRef \/ Script
  \/ CompareHead \/ CreatePull \/ Wait \/ Poll \/ CloseUnmergeable \/ ManualMerge \/ Merge
  \/ CloseFailedMerge \/ Finish \/ Artifact \/ Post

\* Runs from develop on one repository. The runner takes the main step and
\* then the post step to their end: every await is answered, so the step the
\* run is at is taken (for ListTags, which is enabled exactly at its
\* statement, this is written with the statement). A host that is asked again
\* and again for the mergeable state comes to report one.
RunFairInit ==
  /\ RunInit
  /\ inp.ref = EventRef(S_develop) /\ inp.token /\ inp.exports /\ inp.artifact
  /\ inp.stage \in {S_alpha, S_beta, S_production}
  /\ world.branches = {S_develop, S_release, S_main, S_hotfix}
  /\ world.tags = <<MkProd(2025, 1, Absent), MkPre(2025, 2, Absent, S_beta, 1, Absent),
                    MkAlpha(2025, 2, 1)>>

SpecRunFair ==
  /\ RunFairInit /\ [][RunNext]_vars
  /\ WF_vars(Validate \/ CompareDetached \/ ListBranches \/ ListBranchesHotfix)
  /\ []<>(pc # "listTags")
  /\ WF_vars(AfterTags)
  /\ SF_vars(PollSettled)

-----------------------------------------------------------------------------
(* Claims about chooseBestBase and assertCorrectHotfixBranch.              *)

\* C5: chooseBestBase returns a branch of the preference order whose distance
\* is minimal among the branches of the order (Infinity above every finite
\* distance); among the branches of minimal distance it is the earliest in the
\* order; when every distance is Infinity it is the first of the order.
C5_ChooseMinimalEarliest ==
  cout # <<>> =>
    LET d == cin.distances
        p == cin.preferenceOrder
        best == cout[1]
    IN /\ \A i \in 1..Len(p) : d[best] <= d[p[i]]
       /\ \E k \in 1..Len(p) :
            /\ p[k] = best
            /\ \A j \in 1..(k - 1) : d[p[j]] > d[best]
       /\ (\A i \in 1..Len(p) : d[p[i]] = Infinity) => best = p[1]

C5_Witness ==
  /\ cin # <<>>
  /\ cin.distances = [develop |-> 1, main |-> 2, release |-> 2]
  /\ cin.preferenceOrder = <<"release", "main">>
  /\ cout = <<"release">>

\* C6: assertCorrectHotfixBranch(branch, 'main') writes its summary and throws
\* whenever the fork distance of the branch to develop is finite and its fork
\* distance to main is Infinity or greater than the one to develop.
C6_ForkedFromDevelopFails ==
  (hres.outcome # "not_called" /\ hin.stageBranch = "main") =>
    LET dDevelop == forkDist("develop", BranchRef(hin.branch))
        dMain == forkDist("main", BranchRef(hin.branch))
    IN (dDevelop # Infinity /\ (dMain = Infinity \/ dMain > dDevelop)) =>
         (hres.outcome = "not_based_on_stage" /\ hres.summaryWritten)

\* main's tip is the fork point found for main, yet develop is closer
C6_Witness ==
  /\ hres.outcome = "not_based_on_stage"
  /\ hres.summaryWritten
  /\ hin.stageBranch = "main"
  /\ hres.detail.distances = [develop |-> 1, main |-> 2, release |-> Infinity]
  /\ hres.detail.stageForkMatchesHead
  /\ hres.detail.closerBranch = "develop"

-----------------------------------------------------------------------------
(* Claims about assertOpenPRs on commit graphs.                            *)

CreatedFromMain == {n \in PrNumbers : repo.heads[n].origin = "main"}

\* the summary lists and the error counts exactly the pull request n
ReportsExactly(n) ==
  /\ pres.outcome = "BlockingHotfixPRError"
  /\ pres.offenders = <<n>>
  /\ pres.summary.written
  /\ pres.summary.list = <<n>>

-----------------------------------------------------------------------------
(* Claims about ensureFreshWorkflowRun.                                    *)

\* the flag artifact is listed for the run, or for the repository with the run's id
FlagExists ==
  \/ \E i \in 1..Len(host.runList) : host.runList[i].name = UNMERGED_PR_FLAG_ARTIFACT
  \/ \E p \in 1..Len(host.repoPages) :
       \E i \in 1..Len(host.repoPages[p]) :
         host.repoPages[p][i] = [name |-> UNMERGED_PR_FLAG_ARTIFACT, run |-> fin.runId]

\* the stage named by the error for each stage argument
RerunStage ==
  IF fin.stage \in {Undefined, <<>>, S_alpha, <<" ", "A", "l", "p", "h", "a", " ">>}
  THEN <<"A", "l", "p", "h", "a">>
  ELSE IF fin.stage = <<"B", "E", "T", "A">> THEN <<"B", "e", "t", "a">>
  ELSE IF fin.stage = S_production
  THEN <<"P", "r", "o", "d", "u", "c", "t", "i", "o", "n">>
  ELSE <<"C", "o", "n", "s", "t", "r", "u", "c", "t", "o", "r">>

\* C8: a call of ensureFreshWorkflowRun made while the flag artifact exists for
\* its run fails with the 'do not re-run' error for its stage, having done
\* nothing but list artifacts (no bootstrap, no open-PR check, no upload) and
\* leaving the artifacts as they were; a call after such a call gives the
\* same outcome again.
C8_RerunFailsFirst ==
  [][(fcalls' = fcalls + 1 /\ FlagExists) =>
       /\ fres'.outcome = "rerun"
       /\ fres'.message = RerunStage
       /\ \A i \in 1..Len(fres'.effects) :
            fres'.effects[i] \in {"listWorkflowRunArtifacts", "listArtifactsForRepo"}
       /\ host' = host
       /\ (fres.outcome = "rerun") => (fres' = fres)]_vars

\* the flag is on the second page of the repository's artifacts only
C8_Witness ==
  /\ fcalls = 2
  /\ host.runList = <<ResultArtifact>>
  /\ host.repoPages = <<<<FlagOf(2)>>, <<ResultArtifact, FlagOf(1)>>>>
  /\ fin.stage = <<"B", "E", "T", "A">>
  /\ fres.outcome = "rerun"
  /\ fprev = fres
  /\ fres.effects = <<"listWorkflowRunArtifacts", "listArtifactsForRepo">>

-----------------------------------------------------------------------------
(* Claims about the main step.                                             *)

\* the stage is none of the three, or a hotfix is asked for a stage other than
\* production, or the reference is the target branch of the stage
RejectedInput ==
  \/ inp.stage \notin {S_alpha, S_beta, S_production}
  \/ (inp.hotfix /\ inp.stage # S_production)
  \/ inp.reference = (IF inp.stage = S_alpha THEN S_develop
                      ELSE IF inp.stage = S_beta THEN S_release ELSE S_main)

\* the error of each rule, in the order the run applies them to inputs that
\* are present on an event of a stage branch
RejectedWith ==
  IF inp.stage \notin {S_alpha, S_beta, S_production} THEN "invalid_stage"
  ELSE IF inp.hotfix /\ inp.stage # S_production THEN "hotfix_not_production"
  ELSE "reference_is_target"

InputsPresent ==
  /\ StarterBranch(inp.ref) \in {S_main, S_release, S_develop}
  /\ inp.token
  /\ inp.stage # <<>>

\* C11: a run with hotfix set and stage 'beta' is not rejected by the checks
\* of the inputs: it does not end with the error about hotfixes, and it goes
\* on to its first request.
C11_BetaHotfixAccepted ==
  (pc # "start" /\ InputsPresent /\ inp.hotfix /\ inp.stage = S_beta)
    => outs.failed # "hotfix_not_production"

-----------------------------------------------------------------------------
(* Claims about the failures of versioning.                                *)

\* s is "v20" and two digits, ".", one to three digits
IsYearRevAt(s, n) ==
  /\ n \in 1..3
  /\ Len(s) >= 6 + n
  /\ SubSeq(s, 1, 3) = <<"v", "2", "0">>
  /\ IsDigit(s[4]) /\ IsDigit(s[5])
  /\ s[6] = "."
  /\ AllDigits(SubSeq(s, 7, 6 + n))

\* s is of the form v<year>.<rev>-alpha.<iter>
IsAlphaForm(s) ==
  \E n \in 1..3, k \in 1..4 :
    /\ Len(s) = 6 + n + 7 + k
    /\ IsYearRevAt(s, n)
    /\ SubSeq(s, 7 + n, 13 + n) = S_dashAlpha \o S_dot
    /\ AllDigits(SubSeq(s, 14 + n, Len(s)))

\* s is of the form v<year>.<rev>[.<patch>]-beta.<iter>[.<fix>]
IsBetaForm(s) ==
  \E n \in 1..3, p \in 0..3, k \in 1..4, f \in 0..4 :
    LET afterRev == 6 + n
        afterPatch == afterRev + (IF p = 0 THEN 0 ELSE p + 1)
        afterBeta == afterPatch + 6
        afterIter == afterBeta + k
    IN
    /\ Len(s) = afterIter + (IF f = 0 THEN 0 ELSE f + 1)
    /\ IsYearRevAt(s, n)
    /\ (p > 0) => (s[afterRev + 1] = "." /\ AllDigits(SubSeq(s, afterRev + 2, afterPatch)))
    /\ SubSeq(s, afterPatch + 1, afterBeta) = S_dashBeta \o S_dot
    /\ AllDigits(SubSeq(s, afterBeta + 1, afterIter))
    /\ (f > 0) => (s[afterIter + 1] = "." /\ AllDigits(SubSeq(s, afterIter + 2, Len(s))))

\* the base version a beta release is made from
RequiredBase ==
  IF vin.hotfix THEN vin.latestStageVersion
  ELSE IF vin.reference # <<>> THEN vin.reference ELSE vin.previousVersion

BaseMissing == RequiredBase = Undefined \/ RequiredBase = <<>>

BaseWellFormed ==
  /\ ~BaseMissing
  /\ IF vin.hotfix THEN IsBetaForm(RequiredBase) ELSE IsAlphaForm(RequiredBase)

\* C12: for stage 'beta', versioning throws exactly when its base version is
\* missing or is not of the required form (v<year>.<rev>[.<patch>]-beta.<iter>[.<fix>]
\* for a hotfix, v<year>.<rev>-alpha.<iter> otherwise), with the message about
\* a missing base in the first case and the one about a malformed base in the
\* second.
C12_BetaFailsExactlyOnBadBase ==
  (vin # <<>> /\ vin.stage = "beta" /\ calls = 1) =>
    /\ vout.ok <=> BaseWellFormed
    /\ BaseMissing =>
         vout.error = (IF vin.hotfix THEN "no_previous_beta" ELSE "no_previous_alpha")
    /\ (~BaseMissing /\ ~BaseWellFormed) =>
         vout.error = (IF vin.hotfix THEN "malformed_previous_beta"
                       ELSE "malformed_previous_alpha")

-----------------------------------------------------------------------------
(* Claims about assertOpenPRs on every answer of the git commands.         *)

\* the numbers of the listed pull requests that are candidates, in order
RECURSIVE CandidateNumbers(_)
CandidateNumbers(list) ==
  IF list = <<>> THEN <<>>
  ELSE (IF pin.includeDrafts \/ ~Head(list).draft THEN <<Head(list).number>> ELSE <<>>)
       \o CandidateNumbers(Tail(list))

ListedPulls == prs.open[pin.options.baseBranch]

\* the forbidden branches other than the base
ForbiddenSet ==
  {pin.options.forbiddenBranches[i] : i \in 1..Len(pin.options.forbiddenBranches)}
    \ {pin.options.baseBranch}

\* the fork distance of the head of pull request n to branch b, from what the
\* commands print: the count after the fork point, infinite without a fork
\* point or a readable count
DistanceOf(n, b) ==
  LET k == <<b, PrRef(n)>> IN
  IF git.forkPointOut[k] = NoCommit /\ git.mergeBaseOut[k] = NoCommit THEN Infinity
  ELSE IF git.countOut[k] = NaN THEN Infinity
  ELSE git.countOut[k]

\* some forbidden branch is at a finite distance, and the base is at an
\* infinite or a strictly greater one
MeetsCriterion(n) ==
  \E f \in ForbiddenSet :
    /\ DistanceOf(n, f) # Infinity
    /\ \/ DistanceOf(n, pin.options.baseBranch) = Infinity
       \/ DistanceOf(n, f) < DistanceOf(n, pin.options.baseBranch)

ExpectedOffenders == SelectSeq(CandidateNumbers(ListedPulls), MeetsCriterion)

\* the call was made and none of its commands or requests failed
CallCompleted ==
  /\ pres.outcome # "not_called"
  /\ ~git.fetchFails
  /\ prs.ok
  /\ \A i \in 1..Len(CandidateNumbers(ListedPulls)) :
       PrRef(CandidateNumbers(ListedPulls)[i]) \notin git.headFails

\* C13: when the commands of assertOpenPRs succeed and at least one candidate
\* is an offender, the summary is written with the supplied title and the
\* list of all offenders and the call fails with a BlockingHotfixPRError
\* whose message carries their number; with no offender, or no candidate
\* once the drafts are excluded, the call succeeds and writes no summary.
C13_OutcomeOfAssertOpenPRs ==
  CallCompleted =>
    IF ExpectedOffenders # <<>>
    THEN /\ pres.outcome = "BlockingHotfixPRError"
         /\ pres.summary = [written |-> TRUE, title |-> pin.options.summaryTitle,
                            list |-> ExpectedOffenders]
         /\ pres.errorCount = Len(ExpectedOffenders)
    ELSE /\ pres.outcome = "ok"
         /\ pres.summary = NoSummary

C13_Witness ==
  /\ CallCompleted
  /\ pin.options = MainIntoReleaseOptions
  /\ ~pin.includeDrafts
  /\ Len(ListedPulls) = 2
  /\ pres.outcome = "BlockingHotfixPRError"
  /\ pres.summary.title = "Open main->release PRs Detected:"
  /\ pres.summary.list = <<1, 2>>
  /\ pres.errorCount = 2

\* the smallest distance of the head of pull request n to a forbidden branch
SmallestForbidden(n) ==
  IF \A f \in ForbiddenSet : DistanceOf(n, f) = Infinity THEN Infinity
  ELSE CHOOSE d \in {DistanceOf(n, f) : f \in ForbiddenSet} :
         \A f \in ForbiddenSet : d <= DistanceOf(n, f)

\* C18: with base B and forbidden set F, a candidate is recorded as an offender
\* if and only if some branch of F other than B is at a finite distance from
\* its head and B is at an infinite or a strictly greater one; a candidate
\* whose distance to B equals the smallest forbidden distance is no offender,
\* nor is one whose forbidden distances are all infinite.
C18_OffenderCriterion ==
  CallCompleted =>
    \A i \in 1..Len(CandidateNumbers(ListedPulls)) :
      LET n == CandidateNumbers(ListedPulls)[i] IN
      /\ InSeq(n, pres.offenders) <=> MeetsCriterion(n)
      /\ (DistanceOf(n, pin.options.baseBranch) = SmallestForbidden(n))
           => ~InSeq(n, pres.offenders)
      /\ (SmallestForbidden(n) = Infinity) => ~InSeq(n, pres.offenders)

\* pull request 1 is as far from develop as from main, pull request 2 is
\* closest to main: only the second is recorded
C18_Witness ==
  /\ CallCompleted
  /\ pin.options = DEFAULT_ASSERT_OPEN_PR_OPTIONS
  /\ CandidateNumbers(ListedPulls) = <<1, 2>>
  /\ DistanceOf(1, "develop") = 1
  /\ DistanceOf(1, "main") = 1
  /\ DistanceOf(1, "release") = 2
  /\ DistanceOf(2, "main") = 0
  /\ DistanceOf(2, "develop") = Infinity
  /\ pres.offenders = <<2>>

-----------------------------------------------------------------------------
(* Claims about the errors of the main step.                               *)

\* a step that leaves the run failed sets no output, exports nothing and
\* uploads no artifact, and a recorded failure stays as it is
NothingAfterError ==
  (outs'.failed # "none") =>
    /\ outs'.outputs = outs.outputs
    /\ outs'.exported = outs.exported
    /\ outs'.artifact = outs.artifact
    /\ (outs.failed # "none") => (outs'.failed = outs.failed)

\* a run that ended failed has uploaded no result artifact
FailedRunsEnd ==
  (pc \in {"ended", "posted"} /\ outs.failed # "none") => ~outs.artifact

\* C14 as stated: an error marks the run failed and nothing is set, exported
\* or uploaded after it; the 'reference' output is never set by a run that
\* fails before the merge is reported as merged.
C14_ErrorsEndTheRun ==
  /\ [][NothingAfterError]_vars
  /\ [](FailedRunsEnd)
  /\ []((outs.failed # "none" /\ world.pull # "merged") => outs.outputs.reference = NotSet)

\* C14 amended: the same, the last part for the stages that merge, beta and
\* production (an alpha run sets 'reference' without a merge).
C14_ErrorsEndTheRunMergingStages ==
  /\ [][NothingAfterError]_vars
  /\ [](FailedRunsEnd)
  /\ []((outs.failed # "none" /\ world.pull # "merged" /\ inp.stage # S_alpha)
          => outs.outputs.reference = NotSet)

\* a production run whose pull request was not merged: the versions are set,
\* the reference is not, nothing is exported or uploaded
C14_Witness ==
  /\ pc = "posted"
  /\ inp.stage = S_production
  /\ outs.failed = "merge_failed"
  /\ outs.outputs.version # NotSet
  /\ outs.outputs.reference = NotSet
  /\ ~outs.exported
  /\ ~outs.artifact

-----------------------------------------------------------------------------
(* Claims about the ranking of the stages.                                 *)

\* C15: for every year, revision and optional patch X and all iterations i and
\* j, compareVersions(X-alpha.i, X-beta.j) > 0 and compareVersions(X-beta.j, X) > 0:
\* the alpha ranks below the beta and the beta below the finished release.
C15_StageRanking ==
  cmp # <<>> =>
    \A y \in Years, r \in Revs, p \in {Absent, 1}, i \in {1, 3001}, j \in {1, 3001} :
      /\ (va = MkPre(y, r, p, S_alpha, i, Absent) /\ vb = MkPre(y, r, p, S_beta, j, Absent))
           => cmp.ab > 0
      /\ (va = MkPre(y, r, p, S_beta, j, Absent) /\ vb = MkProd(y, r, p))
           => cmp.ab > 0

-----------------------------------------------------------------------------
(* Claims about the decision of assertCorrectHotfixBranch.                 *)

IntendedBranch == hin.stageBranch

\* the fork point the commands print for the checked branch and branch b
HotfixForkPoint(b) ==
  LET k == <<b, BranchRef(hin.branch)>> IN
  IF git.forkPointOut[k] # NoCommit THEN git.forkPointOut[k] ELSE git.mergeBaseOut[k]

\* the fork distance of the checked branch to branch b
HotfixDistance(b) ==
  IF HotfixForkPoint(b) = NoCommit THEN Infinity
  ELSE IF git.countOut[<<b, BranchRef(hin.branch)>>] = NaN THEN Infinity
  ELSE git.countOut[<<b, BranchRef(hin.branch)>>]

\* intended stage branch, the other stage branch, develop
RankOf(b) ==
  IF b = IntendedBranch THEN 1 ELSE IF b = "develop" THEN 3 ELSE 2

\* the branch detected as closest: of minimal distance, the first such in the
\* preference order
IsDetected(b) ==
  \A c \in Branches :
    \/ HotfixDistance(b) < HotfixDistance(c)
    \/ (HotfixDistance(b) = HotfixDistance(c) /\ RankOf(b) <= RankOf(c))

SharesTipWithIntended(b) ==
  /\ git.tip[b] # NoCommit
  /\ git.tip[b] = git.tip[IntendedBranch]

IsCompeting(b) ==
  /\ b # IntendedBranch
  /\ ~SharesTipWithIntended(b)
  /\ HotfixDistance(b) # Infinity
  /\ HotfixDistance(IntendedBranch) # Infinity
  /\ HotfixDistance(b) <= HotfixDistance(IntendedBranch)

ForkPointIsIntendedTip ==
  /\ HotfixForkPoint(IntendedBranch) # NoCommit
  /\ HotfixForkPoint(IntendedBranch) = git.tip[IntendedBranch]

\* the call was made and its fetches succeeded
HotfixCallCompleted ==
  /\ hres.outcome # "not_called"
  /\ ~git.fetchFails
  /\ BranchRef(hin.branch) \notin git.headFails

TiedWithIntended(b) ==
  /\ b # IntendedBranch
  /\ HotfixDistance(b) # Infinity
  /\ HotfixDistance(b) = HotfixDistance(IntendedBranch)

-----------------------------------------------------------------------------
(* Claims about the production versions.                                   *)

\* the revisions and patches successive calls can reach
ReachedRevs == 1..(MaxRev + MaxCalls)
ReachedPatches == {Absent} \cup (0..(MaxPatch + MaxCalls))

\* v<year>.<rev>[.<patch>] with the year as a string
ProdOfYear(year, r, p) ==
  S_v \o year \o S_dot \o NumToStr(r) \o (IF p = Absent THEN <<>> ELSE S_dot \o NumToStr(p))

\* v<currentYear>.<prior revision + 1> after a production version of the
\* current year, v<currentYear>.1 otherwise
ExpectedWorking ==
  IF \E r \in ReachedRevs, p \in ReachedPatches :
       vin.lastProductionVersion = ProdOfYear(vin.currentYear, r, p)
  THEN LET r == CHOOSE r \in ReachedRevs : \E p \in ReachedPatches :
                  vin.lastProductionVersion = ProdOfYear(vin.currentYear, r, p)
       IN S_v \o vin.currentYear \o S_dot \o NumToStr(r + 1)
  ELSE S_v \o vin.currentYear \o S_dot \o <<"1">>

\* C19: without hotfix, versioning for stage 'production' returns
\* v<currentYear>.1 when lastProductionVersion is not usable or is of another
\* year, and v<currentYear>.<prior revision + 1> otherwise, with no patch and
\* no prerelease suffix; the alpha version is derived from the same value.
C19_ProductionVersion ==
  (vin # <<>> /\ ~vin.hotfix /\ calls >= 1) =>
    /\ (vin.stage = "production") => (vout.ok /\ vout.value = ExpectedWorking)
    /\ (vin.stage = "alpha") =>
         /\ vout.ok
         /\ StartsWithAt(vout.value, 1, ExpectedWorking \o S_dashAlpha \o S_dot)
         /\ Len(vout.value) > Len(ExpectedWorking) + 7
         /\ AllDigits(SubSeq(vout.value, Len(ExpectedWorking) + 8, Len(vout.value)))

\* the last production version is last year's hotfix v2025.2.1: the revision
\* starts again at 1
C19_Witness ==
  /\ vin # <<>> /\ ~vin.hotfix /\ vin.stage = "production" /\ calls = 1
  /\ vin.currentYear = NumToStr(2026)
  /\ vin.lastProductionVersion = MkProd(2025, 2, 1)
  /\ vout.value = MkProd(2026, 1, Absent)

\* C20: a production hotfix on a lastProductionVersion v<year>.<rev>[.<patch>]
\* returns v<year>.<rev>.<patch + 1>, an absent patch counting as 0, with the
\* prior year and revision whatever the current year is; applied to its own
\* result it increases the patch by exactly 1.
C20_ProductionHotfix ==
  (vin # <<>> /\ vin.hotfix /\ vin.stage = "production" /\ calls >= 1) =>
    /\ \A y \in Years, r \in Revs, p \in ReachedPatches :
         (vin.lastProductionVersion = MkProd(y, r, p)) =>
           (vout.ok /\ vout.value = MkProd(y, r, (IF p = Absent THEN 0 ELSE p) + 1))
    /\ (calls >= 2) => (vfirst.ok /\ vin.lastProductionVersion = vfirst.value)

\* last year's v2025.2 hotfixed twice in 2026
C20_Witness ==
  /\ vin # <<>> /\ vin.hotfix /\ vin.stage = "production" /\ calls = 2
  /\ vin.currentYear = NumToStr(2026)
  /\ vfirst.value = MkProd(2025, 2, 1)
  /\ vout.value = MkProd(2025, 2, 2)

-----------------------------------------------------------------------------
(* Claims about the alpha versions.                                        *)

\* the previous alpha version is the working version followed by -alpha.<iter>
PreviousAlphaContinues ==
  /\ vin.previousVersion # Undefined
  /\ StartsWithAt(vin.previousVersion, 1, ExpectedWorking \o S_dashAlpha \o S_dot)
  /\ Len(vin.previousVersion) > Len(ExpectedWorking) + 7
  /\ AllDigits(SubSeq(vin.previousVersion, Len(ExpectedWorking) + 8, Len(vin.previousVersion)))

PreviousIteration ==
  DigitsToNum(SubSeq(vin.previousVersion, Len(ExpectedWorking) + 8, Len(vin.previousVersion)))

\* C21: without hotfix and for stage 'alpha', when the previous alpha version
\* has the year and revision of the working version, versioning returns them
\* with the iteration increased by 1; with another year or revision, or with
\* no previous alpha, it returns v<working year>.<working revision>-alpha.1.
C21_AlphaDecoration ==
  (vin # <<>> /\ ~vin.hotfix /\ vin.stage = "alpha" /\ calls >= 1) =>
    /\ vout.ok
    /\ vout.value = ExpectedWorking \o S_dashAlpha \o S_dot
                      \o NumToStr(IF PreviousAlphaContinues THEN PreviousIteration + 1 ELSE 1)

\* v2026.2 was released after v2026.2-alpha.2: the next alpha is v2026.3-alpha.1
C21_Witness ==
  /\ vin # <<>> /\ ~vin.hotfix /\ vin.stage = "alpha" /\ calls = 1
  /\ vin.currentYear = NumToStr(2026)
  /\ vin.lastProductionVersion = MkProd(2026, 2, Absent)
  /\ vin.previousVersion = MkAlpha(2026, 2, 2)
  /\ vout.value = MkAlpha(2026, 3, 1)

-----------------------------------------------------------------------------
(* Claims about the stage checks of ensureFreshWorkflowRun.                *)

\* the fork distance the git answers give for pull request n and branch b
FreshDistance(b, n) == git.countOut[<<b, PrRef(n)>>]

\* an open pull request into the base, not a draft, forked nearer to a
\* forbidden branch than to the base
BlockedCheck(base, forbidden) ==
  \E i \in 1..Len(prs.open[base]) :
    /\ ~prs.open[base][i].draft
    /\ \E b \in forbidden :
         FreshDistance(b, prs.open[base][i].number) < FreshDistance(base, prs.open[base][i].number)

\* the head of a listed pull request into the base cannot be fetched
HeadUnfetched(base) ==
  \E i \in 1..Len(prs.open[base]) :
    ~prs.open[base][i].draft /\ PrRef(prs.open[base][i].number) \in git.headFails

\* the stage of the call after trimming and lower-casing
FreshStage ==
  IF fin.stage \in {S_alpha, <<" ", "A", "l", "p", "h", "a", " ">>} THEN "alpha"
  ELSE IF fin.stage = <<"B", "E", "T", "A">> THEN "beta"
  ELSE "none"

\* the error the first failing check of the stage raises, "none" when all pass
CheckError(base, forbidden) ==
  IF git.fetchFails THEN "git_error"
  ELSE IF ~prs.ok THEN "api_error"
  ELSE IF HeadUnfetched(base) THEN "git_error"
  ELSE IF BlockedCheck(base, forbidden) THEN "BlockingHotfixPRError"
  ELSE "none"

StageCheckError ==
  IF FreshStage = "alpha"
  THEN IF CheckError("develop", {"main", "release"}) # "none"
       THEN CheckError("develop", {"main", "release"})
       ELSE CheckError("release", {"main"})
  ELSE IF FreshStage = "beta" THEN CheckError("release", {"main"})
  ELSE "none"

\* the call gets as far as the checks: no flag, and a checkout is there or made
ReachesChecks(effects) ==
  /\ ~FlagExists
  /\ \E i \in 1..Len(effects) :
       effects[i] \in {"assertOpenPRs develop", "assertOpenPRs release"}

UploadEffects == {"writeFileSync", "uploadArtifact", "rmRF"}

\* C22: when a check of the stage raises a BlockingHotfixPRError the upload of
\* the flag artifact is started after that check and the call ends with that
\* very error, whether the upload worked (the artifact is there afterwards) or
\* not (nothing changed); when a check raises another error no upload is
\* started, nothing changes and the call ends with that error.
C22_BlockingErrorSurvivesUpload ==
  [][(fcalls' = fcalls + 1 /\ ReachesChecks(fres'.effects)) =>
       /\ (StageCheckError = "BlockingHotfixPRError") =>
            /\ fres'.outcome = "BlockingHotfixPRError"
            /\ fres'.check.outcome = "BlockingHotfixPRError"
            /\ \E i \in 2..Len(fres'.effects) :
                 /\ fres'.effects[i] = "writeFileSync"
                 /\ fres'.effects[i - 1] \in {"assertOpenPRs develop", "assertOpenPRs release"}
            /\ host' \in {[host EXCEPT !.checkout = TRUE],
                          Uploaded([host EXCEPT !.checkout = TRUE], fin.runId)}
       /\ (StageCheckError \in {"api_error", "git_error"}) =>
            /\ fres'.outcome = StageCheckError
            /\ \A i \in 1..Len(fres'.effects) : fres'.effects[i] \notin UploadEffects
            /\ host' = [host EXCEPT !.checkout = TRUE]
       /\ (StageCheckError = "none") => fres'.outcome = "ok"]_vars

\* the upload failed: the call ended with the blocking error and no flag
C22_Witness ==
  /\ fcalls = 1
  /\ fres.outcome = "BlockingHotfixPRError"
  /\ fres.effects[Len(fres.effects)] = "warning"
  /\ fres.effects[Len(fres.effects) - 1] = "rmRF"
  /\ ~FlagExists
  /\ FreshStage = "alpha"

\* the second check of stage alpha failed on a fetch: nothing was uploaded
C22_WitnessOtherError ==
  /\ fcalls = 1
  /\ fres.outcome = "git_error"
  /\ fres.effects[Len(fres.effects)] = "assertOpenPRs release"
  /\ FreshStage = "alpha"


\* the open-PR checks in the order they were run
ChecksRun(effects) ==
  LET IsCheck(e) == e \in {"assertOpenPRs develop", "assertOpenPRs release"} IN
  SelectSeq(effects, IsCheck)

\* the checks the stage asks for, the second of alpha only after a first that passed
ChecksOfStage ==
  IF FreshStage = "alpha"
  THEN IF CheckError("develop", {"main", "release"}) = "none"
       THEN <<"assertOpenPRs develop", "assertOpenPRs release">>
       ELSE <<"assertOpenPRs develop">>
  ELSE IF FreshStage = "beta" THEN <<"assertOpenPRs release">>
  ELSE <<>>

\* the call found no checkout and could not make one
BootstrapFailed(result) ==
  \/ result.outcome = "no_checkout"
  \/ result.outcome = "git_error" /\ result.effects[Len(result.effects)] = "prepareRepository"

\* one call that finds no flag runs the checks of its stage and no other
C23_Body ==
(fcalls' = fcalls + 1 /\ ~FlagExists) =>
  /\ (FreshStage \in {"alpha", "beta"} /\ ~BootstrapFailed(fres')) =>
       ChecksRun(fres'.effects) = ChecksOfStage
  /\ (FreshStage = "none") =>
       /\ fres'.outcome = "ok"
       /\ host' = host
       /\ \A i \in 1..Len(fres'.effects) :
            fres'.effects[i] \in {"listWorkflowRunArtifacts", "listArtifactsForRepo"}

\* C23: a call of ensureFreshWorkflowRun that finds no flag runs, for stage
\* alpha (trimmed, in lower case), the check develop-vs-{main, release} and
\* then, only if that one passed, the check release-vs-{main}; for stage beta
\* only release-vs-{main}; for any other stage or none it runs no check and no
\* git operation: it only lists artifacts and returns.
C23_ChecksOfTheStage ==
  [][C23_Body]_vars

\* the same for the stage arguments that are not inherited keys
C23_ChecksOfTheStageOwnKeys ==
  [][(fin.stage # S_constructor) => C23_Body]_vars

-----------------------------------------------------------------------------
(* The git commands of assertOpenPRs and assertCorrectHotfixBranch as they  *)
(* start and finish. shell starts a child process and settles its promise  *)
(* in the callback of exec; the caller goes on when the promise it awaits   *)
(* is settled. The answers of the commands are the ones in git.            *)

\* the name of a local ref in a command line
RefName(ref) ==
  IF ref[1] = "pr" THEN (IF ref[2] = 1 THEN "pr-1" ELSE "pr-2") ELSE ref[2]

Command(kind, base, head, rejects) ==
  [kind |-> kind, base |-> base, head |-> head, rejects |-> rejects]

\* the commands of forkPoint: the plain merge base only after an empty answer
ForkPointCommands(base, headLocalRef) ==
  <<Command("merge-base --fork-point", base, RefName(headLocalRef), FALSE)>>
  \o IF git.forkPointOut[<<base, headLocalRef>>] = NoCommit
     THEN <<Command("merge-base", base, RefName(headLocalRef), FALSE)>>
     ELSE <<>>

\* the commands of forkDist: the count only for a fork point that was found
ForkDistCommands(base, headLocalRef) ==
  ForkPointCommands(base, headLocalRef)
  \o IF forkPoint(base, headLocalRef) # NoCommit
     THEN <<Command("rev-list --count", base, RefName(headLocalRef), FALSE)>>
     ELSE <<>>

RECURSIVE MeasureCommands(_, _, _)
MeasureCommands(branchesToMeasure, i, localHead) ==
  IF i > Len(branchesToMeasure) THEN <<>>
  ELSE ForkDistCommands(branchesToMeasure[i], localHead)
       \o MeasureCommands(branchesToMeasure, i + 1, localHead)

\* the commands of the loop over the candidates, up to a fetch that fails
RECURSIVE PrLoopCommands(_, _, _)
PrLoopCommands(candidates, i, branchesToMeasure) ==
  IF i > Len(candidates) THEN <<>>
  ELSE LET localHead == PrRef(candidates[i].number) IN
       IF localHead \in git.headFails
       THEN <<Command("fetch", "", RefName(localHead), TRUE)>>
       ELSE <<Command("fetch", "", RefName(localHead), FALSE)>>
            \o MeasureCommands(branchesToMeasure, 1, localHead)
            \o PrLoopCommands(candidates, i + 1, branchesToMeasure)

assertOpenPRsCommands(includeDrafts, options) ==
  LET baseBranch == options.baseBranch
      NotBase(branch) == branch # baseBranch
      normalizedForbidden == Dedupe(SelectSeq(options.forbiddenBranches, NotBase))
      NotDraft(p) == ~p.draft
      list == prs.open[baseBranch]
      candidates == IF includeDrafts THEN list ELSE SelectSeq(list, NotDraft)
  IN
  IF Len(normalizedForbidden) = 0 THEN <<>>
  ELSE IF git.fetchFails THEN <<Command("fetch --prune", "", "", TRUE)>>
  ELSE IF ~prs.ok THEN <<Command("fetch --prune", "", "", FALSE)>>
  ELSE <<Command("fetch --prune", "", "", FALSE)>>
       \o PrLoopCommands(candidates, 1, Dedupe(<<baseBranch>> \o normalizedForbidden))

\* rev-parse rejects for a branch that is missing; the rejection is caught
assertCorrectHotfixBranchCommands(branch, stageBranch) ==
  LET localRef == BranchRef(branch) IN
  IF git.fetchFails THEN <<Command("fetch --prune", "", "", TRUE)>>
  ELSE IF localRef \in git.headFails
  THEN <<Command("fetch --prune", "", "", FALSE), Command("fetch", "", RefName(localRef), TRUE)>>
  ELSE <<Command("fetch --prune", "", "", FALSE), Command("fetch", "", RefName(localRef), FALSE)>>
       \o ForkDistCommands("develop", localRef)
       \o ForkDistCommands("main", localRef)
       \o ForkDistCommands("release", localRef)
       \o <<Command("rev-parse", "develop", "", FALSE),
            Command("rev-parse", "main", "", FALSE),
            Command("rev-parse", "release", "", FALSE)>>
       \o ForkPointCommands("develop", localRef)
       \o ForkPointCommands("main", localRef)
       \o ForkPointCommands("release", localRef)

\* the commands the call of the behaviour runs, in the order of its statements
CallCommands ==
  IF pin # <<>> THEN assertOpenPRsCommands(pin.includeDrafts, pin.options)
  ELSE assertCorrectHotfixBranchCommands(hin.branch, hin.stageBranch)

\* the caller goes on without the answers of the fork-point and count commands
Awaited_FetchesOnly(command) ==
  command.kind \in {"fetch --prune", "fetch"}

\* every call of shell in the two functions is awaited
Awaited(command) ==
  TRUE

\* the answers for one head of assertOpenPRs: found in the reflog, found by
\* the plain merge base, not found
HeadAnswers ==
  {[forkPoint |-> 1, mergeBase |-> 1, count |-> 1],
   [forkPoint |-> NoCommit, mergeBase |-> 1, count |-> 1],
   [forkPoint |-> NoCommit, mergeBase |-> NoCommit, count |-> NaN]}

CommandsInit ==
  /\ \/ /\ \E failure \in {"none", "fetch", "head", "list"},
              a \in [Branches -> HeadAnswers], list \in PullLists :
            \* a first fetch or a listing that fails ends the call: one case of each
            /\ (failure \in {"fetch", "list"}) =>
                 (list = <<>> /\ \A b \in Branches : a[b].forkPoint = 1)
            /\ (failure = "head") => (Len(list) = 2)
            /\ git = [fetchFails |-> failure = "fetch",
                      headFails |-> IF failure = "head" THEN {PrRef(2)} ELSE {},
                      forkPointOut |-> [k \in Branches \X {PrRef(n) : n \in PrNumbers} |->
                                          a[k[1]].forkPoint],
                      mergeBaseOut |-> [k \in Branches \X {PrRef(n) : n \in PrNumbers} |->
                                          a[k[1]].mergeBase],
                      countOut |-> [k \in Branches \X {PrRef(n) : n \in PrNumbers} |->
                                      a[k[1]].count],
                      tip |-> [x \in Branches |-> 1]]
            /\ prs = [ok |-> failure # "list", open |-> [b \in Branches |-> list]]
         /\ pin \in [includeDrafts : BOOLEAN,
                     options : {DEFAULT_ASSERT_OPEN_PR_OPTIONS, MainIntoReleaseOptions}]
         /\ hin = <<>>
      \/ /\ git \in {g \in HotfixAnswers :
                       /\ Canonical(g)
                       /\ \A b \in Branches :
                            /\ g.countOut[<<b, BranchRef(HotfixBranch)>>] \in {1, NaN}
                            /\ g.tip[b] = 1}
                    \cup {FailingFetch(TRUE, {}), FailingFetch(FALSE, {BranchRef(HotfixBranch)})}
         /\ prs = <<>>
         /\ hin \in [branch : {HotfixBranch}, stageBranch : {"main", "release"}]
         /\ pin = <<>>
  /\ repo = <<>>
  /\ pres = <<>> /\ hres = <<>>
  /\ cin = <<>> /\ cout = <<>>
  /\ VersionIdle
  /\ OrderIdle
  /\ FreshIdle
  /\ inp = <<>> /\ world = <<>> /\ outs = <<>>
  /\ pc = "running"
  /\ rs = [next |-> 1]
  /\ io = [inflight |-> {}, log |-> <<>>]

\* the caller reaches a call of shell: the child process is started
StartCommand ==
  /\ pc = "running"
  /\ rs.next <= Len(CallCommands)
  /\ io' = [inflight |-> io.inflight \cup {rs.next},
            log |-> Append(io.log, [event |-> "start", at |-> rs.next])]
  /\ IF Awaited(CallCommands[rs.next])
     THEN pc' = "awaiting" /\ rs' = rs
     ELSE pc' = "running" /\ rs' = [next |-> rs.next + 1]
  /\ UNCHANGED <<inp, world, outs, versionVars, orderVars, gitVars, forkVars, freshVars>>

\* a child process ends; the caller that awaits it goes on or throws
FinishCommand ==
  /\ \E i \in io.inflight :
       /\ io' = [inflight |-> io.inflight \ {i},
                 log |-> Append(io.log, [event |-> "finish", at |-> i])]
       /\ IF pc = "awaiting" /\ rs.next = i
          THEN IF CallCommands[i].rejects
               THEN pc' = "thrown" /\ rs' = rs
               ELSE pc' = "running" /\ rs' = [next |-> rs.next + 1]
          ELSE pc' = pc /\ rs' = rs
  /\ UNCHANGED <<inp, world, outs, versionVars, orderVars, gitVars, forkVars, freshVars>>

\* after the last command the call returns or throws its error
EndOfCall ==
  /\ pc = "running"
  /\ rs.next > Len(CallCommands)
  /\ pc' = "ended"
  /\ UNCHANGED <<inp, rs, world, outs, io, versionVars, orderVars, gitVars, forkVars,
                 freshVars>>

CommandsNext == StartCommand \/ FinishCommand \/ EndOfCall

SpecCommands == CommandsInit /\ [][CommandsNext]_vars

-----------------------------------------------------------------------------
(* Claims about the order of the git commands.                             *)

\* where in the log command i starts and finishes, 0 when it has not
PositionOf(event, i) ==
  IF \E k \in 1..Len(io.log) : io.log[k] = [event |-> event, at |-> i]
  THEN CHOOSE k \in 1..Len(io.log) : io.log[k] = [event |-> event, at |-> i]
  ELSE 0

IsQuery(command) ==
  command.kind \in {"merge-base --fork-point", "merge-base", "rev-list --count"}

IsFetch(command) ==
  command.kind \in {"fetch --prune", "fetch"}

\* C24: at most one git command is in flight at any time; the queries on a
\* local ref start after the fetch into that ref is over; the queries of one
\* head run one after another, branch by branch; the fetch of the next pull
\* request starts after every query of the one before is over; no two fetches
\* are in flight together.
C24_CommandsInSequence ==
  (pc # "" /\ rs # <<>>) =>
    \E plan \in {CallCommands} :
    \E start \in {[i \in 1..Len(plan) |-> PositionOf("start", i)]} :
    \E finish \in {[i \in 1..Len(plan) |-> PositionOf("finish", i)]} :
      LET Started(i) == start[i] > 0
          StartedBefore(i, j) == Started(i) /\ start[i] < start[j]
          \* command i was over when command j started
          Before(i, j) == finish[i] > 0 /\ finish[i] < start[j]
      IN
      /\ Cardinality(io.inflight) <= 1
      /\ \A i, j \in 1..Len(plan) :
           (Started(j) /\ i # j) =>
             LET c == plan[i]
                 d == plan[j]
             IN
             \* the fetch of the head a query reads
             /\ (IsQuery(d) /\ c.kind = "fetch" /\ c.head = d.head) => Before(i, j)
             \* the queries of one head, and the queries of the head before
             /\ (IsQuery(d) /\ IsQuery(c) /\ i < j) => Before(i, j)
             \* the fetch of the next head
             /\ (d.kind = "fetch" /\ IsQuery(c) /\ c.head # d.head /\ StartedBefore(i, j))
                  => Before(i, j)
             \* no query of a head is started once the next head is being fetched
             /\ (d.kind = "fetch" /\ IsQuery(c) /\ c.head # d.head /\ i < j) => Started(i)
             /\ (IsFetch(c) /\ IsFetch(d) /\ StartedBefore(i, j)) => Before(i, j)
      /\ \A j \in 1..Len(plan) :
           (Started(j) /\ IsQuery(plan[j])) =>
             \E i \in 1..Len(plan) :
               /\ plan[i].kind = "fetch" /\ ~plan[i].rejects
               /\ plan[i].head = plan[j].head
               /\ Before(i, j)

\* the second pull request is fetched after nine queries on the first
C24_Witness ==
  /\ pin # <<>>
  /\ pc = "awaiting"
  /\ Len(CallCommands) >= 12
  /\ CallCommands[rs.next] = Command("fetch", "", "pr-2", FALSE)
  /\ \E i \in 1..Len(CallCommands) :
       /\ CallCommands[i] = Command("rev-list --count", "release", "pr-1", FALSE)
       /\ PositionOf("finish", i) > 0
       /\ PositionOf("finish", i) < PositionOf("start", rs.next)

\* the three fork points of the hotfix check are asked for a second time
C24_WitnessHotfix ==
  /\ hin # <<>>
  /\ pc = "ended"
  /\ Len(CallCommands) = 20
  /\ io.inflight = {}

-----------------------------------------------------------------------------
(* Claims about the versions of the main step.                             *)

\* the tags of the repository the filter of the run accepts
AcceptedNames == {world.tags[i] : i \in {k \in 1..Len(world.tags) : TestTag(world.tags[k])}}

\* the branch of a tag, by its suffix
AssignedBranch(tag) ==
  IF \E k \in 1..Len(tag) : StartsWithAt(tag, k, <<"-", "a", "l", "p", "h", "a", ".">>)
  THEN S_develop
  ELSE IF \E k \in 1..Len(tag) : StartsWithAt(tag, k, <<"-", "b", "e", "t", "a", ".">>)
  THEN S_release
  ELSE S_main

\* the branch the stage of the run releases to
TargetBranch ==
  IF inp.stage = S_alpha THEN S_develop
  ELSE IF inp.stage = S_beta THEN S_release
  ELSE S_main

TargetTags == {tag \in AcceptedNames : AssignedBranch(tag) = TargetBranch}

\* the run has read and sorted the tags
TagsRead == pc \notin {"", "start", "compareDetached", "listBranches", "listBranchesHotfix", "listTags"}

\* C25: once the run has set its outputs, previous_version is an accepted tag
\* assigned (by its suffix) to the target branch of the stage such that no
\* other tag of that branch ranks newer under compareVersions; it is undefined
\* exactly when no accepted tag is assigned to the target branch.
C25_PreviousVersionIsNewestOfTarget ==
  (inp # <<>> /\ outs.outputs.version # NotSet) =>
    /\ (outs.outputs.previous_version = Undefined) <=> (TargetTags = {})
    /\ (TargetTags # {}) =>
         /\ outs.outputs.previous_version \in TargetTags
         /\ \A other \in TargetTags :
              ~(compareVersions(other, outs.outputs.previous_version) < 0)

\* alpha.9000 is the newest of the two alpha tags, listed before alpha.9
C25_Witness ==
  /\ inp # <<>> /\ inp.stage = S_alpha
  /\ outs.outputs.version # NotSet
  /\ world.tags = <<SomeProd, MkAlpha(2025, 1, 9000), MkAlpha(2025, 1, 9)>>
  /\ outs.outputs.previous_version = MkAlpha(2025, 1, 9000)

\* no beta tag: a beta run has no previous version
C25_WitnessUndefined ==
  /\ inp # <<>> /\ inp.stage = S_beta
  /\ outs.outputs.version # NotSet
  /\ outs.outputs.previous_version = Undefined
  /\ AcceptedNames # {}


\* the main step is over: completed or failed
RunTerminated == pc \in {"ended", "posted"}

\* C26: after the pull request is created the run reads it again, five
\* seconds apart, for as long as its mergeable state is null, and leaves the
\* loop only with a state that is not null or with an error, never by a count
\* of attempts; with a host that comes to report a state, every run
\* terminates, completed or failed.
C26_PollingTerminates ==
  /\ [][(pc \in {"wait", "poll"} /\ pc' \notin {"wait", "poll"}) =>
          \/ rs'.mergeable # "null"
          \/ pc' = "ended" /\ outs'.failed = "request_failed"]_vars
  /\ [][(pc = "wait") => (pc' = "poll")]_vars
  /\ <>RunTerminated

\* a run that read the pull request MaxPolls times and more, and completed
C26_Witness ==
  /\ pc = "ended"
  /\ rs.polls = MaxPolls
  /\ rs.mergeable = "true"
  /\ outs.failed = "none"
  /\ outs.outputs.reference # NotSet


\* C27: assertCorrectHotfixBranch never succeeds when the fork distance of the
\* checked branch to the intended stage branch is infinite, whatever the
\* other two distances are, all three infinite included.
C27_InfiniteNeverSucceeds ==
  (HotfixCallCompleted /\ HotfixDistance(IntendedBranch) = Infinity) =>
    hres.outcome # "ok"

\* the same when one of the other two distances is finite
C27_InfiniteWithFiniteOtherFails ==
  (/\ HotfixCallCompleted
   /\ HotfixDistance(IntendedBranch) = Infinity
   /\ \E b \in Branches : HotfixDistance(b) # Infinity) =>
    hres.outcome = "not_based_on_stage"


\* the run has set its outputs and the target branch had a tag
VersionAfterPrevious ==
  /\ inp # <<>>
  /\ outs.outputs.version # NotSet
  /\ outs.outputs.previous_version # NotSet
  /\ outs.outputs.previous_version # Undefined

\* C28: whenever a run sets the 'version' output and a previous version
\* exists on the target branch, the version ranks strictly newer than the
\* previous version: compareVersions(version, previous_version) < 0, for every
\* stage, hotfix flag, reference and history of tags.
C28_VersionRanksNewer ==
  VersionAfterPrevious =>
    compareVersions(outs.outputs.version, outs.outputs.previous_version) < 0

\* the same for the runs that name no alpha release to promote, on tags whose
\* iterations stay below 9000
C28_RanksNewerFromLatest ==
  (/\ VersionAfterPrevious
   /\ ~(inp.stage = S_beta /\ inp.reference # <<>>)
   /\ \A i \in 1..Len(world.tags) : world.tags[i] # MkAlpha(2025, 1, 9000)) =>
    compareVersions(outs.outputs.version, outs.outputs.previous_version) < 0


\* the requests of the run so far
Requested(call) == \E i \in 1..Len(io.api) : io.api[i] = call

\* C29: the outputs version, plain_version and extended_version are set only
\* for a computed version that is none of the accepted tags; a run whose
\* computed version is an accepted tag fails with the 'already exists' error,
\* sets none of the three outputs, creates no temporary branch and no pull
\* request.
C29_NoVersionTwice ==
  (inp # <<>> /\ pc # "") =>
    /\ (\/ outs.outputs.version # NotSet
        \/ outs.outputs.plain_version # NotSet
        \/ outs.outputs.extended_version # NotSet) =>
         /\ outs.outputs.version \notin AcceptedNames
         /\ outs.outputs.version = rs.version
         /\ outs.outputs.plain_version # NotSet
         /\ outs.outputs.extended_version # NotSet
    /\ (rs.version # Undefined /\ rs.version \in AcceptedNames) =>
         /\ pc \in {"ended", "posted"}
         /\ outs.failed = "already_exists"
         /\ outs.outputs = NoOutputs
         /\ outs.state.branch = NotSet
         /\ ~Requested("createRef")
         /\ ~Requested("pulls.create")
         /\ world.pull = "none"
         /\ \A b \in world.branches : b \in {S_develop, S_release, S_main, S_hotfix}

\* the beta release of v2025.2-alpha.1 exists: the beta run fails
C29_Witness ==
  /\ inp # <<>> /\ inp.stage = S_beta /\ inp.reference = <<>>
  /\ pc = "posted"
  /\ rs.version = MkPre(2025, 2, Absent, S_beta, 1, Absent)
  /\ rs.version \in AcceptedNames
  /\ outs.failed = "already_exists"

\* the branches of the repository that are none of its four lasting ones
TemporaryBranches == world.branches \ {S_develop, S_release, S_main, S_hotfix}

PostStep == pc = "ended" /\ pc' = "posted"

C30_WitnessMerged ==
  /\ pc = "posted"
  /\ outs.failed = "none"
  /\ outs.state.delete = "true"
  /\ world.pull = "merged"
  /\ TemporaryBranches = {}

\* a hotfix run creates no branch and its post step deletes none
C30_WitnessHotfix ==
  /\ pc = "posted"
  /\ inp.hotfix
  /\ outs.failed = "none"
  /\ outs.state.delete = "false"
  /\ \A i \in 1..Len(io.api) : io.api[i] \notin {"createRef", "deleteRef"}

====
